---- MODULE Spec2Model ----
(***************************************************************************)
(* CompanyDataManager (src/js/companyData.js): the in-memory cache of six  *)
(* Appwrite collections, the guarded fan-out that refreshes it and the     *)
(* join that builds the merged company view.                               *)
(*                                                                         *)
(* JavaScript values are modelled as follows.  A string field is a TLA+    *)
(* string; a field the record does not carry is Undefined; null is         *)
(* JsNull.  A product's image reference is a tagged value (JsStr, JsUndef, *)
(* JsNum) whose text is a sequence of pieces, so that startsWith and       *)
(* template concatenation are computed and not assumed.  Numbers with      *)
(* decimals (coordinates, Math.random) are integers in units of 1/10000.   *)
(***************************************************************************)
EXTENDS Integers, Sequences, FiniteSets, TLC

----------------------------------------------------------------------------
(* Bounds of the model *)

\* calls of fetchCompanyData / refreshCompanyData in one behaviour
MaxCalls == 3
\* fan-outs started in one behaviour
MaxFanOuts == 2
\* advances of the clock in one behaviour
MaxTicks == 2

----------------------------------------------------------------------------
(* JavaScript values *)

Undefined == "undefined"
JsNull == "null"

\* the truthiness of a string-valued or missing field: undefined, null, ''
Truthy(x) == x \notin {Undefined, JsNull, ""}

\* a || b
JsOr(a, b) == IF Truthy(a) THEN a ELSE b

\* a flag that counts as set unless it is false
FlagUnlessFalse(x) == x # "false"

\* a boolean field of a document: "true", "false", or missing
FlagOrFalse(x) == x = "true"

JsUndef == [type |-> "undefined", text |-> <<>>]
JsStr(pieces) == [type |-> "string", text |-> pieces]
JsNum == [type |-> "number", text |-> <<>>]

\* !imagePath : undefined and the empty string are falsy, a non-zero number is not
ImageFalsy(v) == v.type = "undefined" \/ (v.type = "string" /\ v.text = <<>>)

\* the text pieces that begin with the letters http
HttpPieces == {"http://cdn.example/p1.png",
               "https://nyc.cloud.appwrite.io/v1/storage/buckets/",
               "http-banner.png"}

\* imagePath.startsWith('http'), for a string
StartsWithHttp(v) == Len(v.text) > 0 /\ v.text[1] \in HttpPieces

\* Array.prototype.find over the set S of matching indices: the first, 0 if none
FirstIndex(S) == IF S = {} THEN 0 ELSE CHOOSE i \in S : \A j \in S : i <= j

----------------------------------------------------------------------------
(* The collections and what the store can answer *)

Collections == {"companies", "branches", "workingDays", "products",
                "socialMedia", "verifications"}

CompanyDocs ==
    << [id |-> "doc_co1", company_id |-> "c1", name |-> "Acme",
        email |-> "info@acme.test"] >>

BranchDocs ==
    << [id |-> "doc_br1", branch_id |-> "b1", company_id |-> "c1",
        branch_name |-> Undefined, email |-> "accra@acme.test",
        phone_number |-> "0200", location |-> "Accra, Ghana",
        description |-> Undefined, website |-> Undefined,
        is_online |-> "true", is_active |-> "true", disabled |-> "false",
        profile_image |-> Undefined, header_image |-> Undefined,
        branch_type |-> "shop"],
       [id |-> "doc_br2", branch_id |-> "b2", company_id |-> "c9",
        branch_name |-> "Orphan", email |-> Undefined,
        phone_number |-> Undefined, location |-> Undefined,
        description |-> Undefined, website |-> Undefined,
        is_online |-> Undefined, is_active |-> "true", disabled |-> "false",
        profile_image |-> Undefined, header_image |-> Undefined,
        branch_type |-> Undefined] >>

\* the branches table of the store, newest first: the two branches above, one
\* that is not active and one that is disabled
BranchTable ==
    << BranchDocs[1],
       [BranchDocs[1] EXCEPT !.id = "doc_br8", !.branch_id = "b8",
                             !.is_active = "false"],
       BranchDocs[2],
       [BranchDocs[1] EXCEPT !.id = "doc_br9", !.branch_id = "b9",
                             !.disabled = "true"] >>

\* a store that ignores the two equality queries
QueryBranchesUnfiltered(table) == table

\* listDocuments with Query.equal('is_active', true), Query.equal('disabled',
\* false) and Query.orderDesc('$createdAt') on a table kept newest first
QueryBranches(table) ==
    SelectSeq(table, LAMBDA b : b.is_active = "true" /\ b.disabled = "false")

WorkingDayDocs ==
    << [id |-> "doc_wd1", branch_id |-> "b1", company_id |-> Undefined,
        day |-> "Monday", time |-> "8-17"] >>

ProductDocs ==
    << [id |-> "doc_p1", branch_id |-> Undefined, company_id |-> "c1",
        name |-> "Water", product_image |-> JsStr(<<"p1.png">>)] >>

\* a product whose product_image attribute is not a string
ProductDocsNonString ==
    << [id |-> "doc_p2", branch_id |-> "b1", company_id |-> "c1",
        name |-> "Sachet", product_image |-> JsNum] >>

SocialMediaDocs ==
    << [id |-> "doc_sm1", branch_id |-> "b1", company_id |-> "c1",
        platform |-> "x", url |-> "https://x.test/acme"] >>

VerificationDocs ==
    << [id |-> "doc_v1", company_id |-> "c1", companyId |-> Undefined,
        companyID |-> Undefined, company |-> Undefined,
        status |-> "verified", verification_status |-> Undefined,
        verificationStatus |-> Undefined] >>

\* the document lists a successful listDocuments can deliver for a collection
StoreResults(k) ==
    CASE k = "companies" -> {CompanyDocs}
      [] k = "branches" -> {QueryBranches(BranchTable)}
      [] k = "workingDays" -> {WorkingDayDocs}
      [] k = "products" -> {ProductDocs, ProductDocsNonString}
      [] k = "socialMedia" -> {SocialMediaDocs}
      [] k = "verifications" -> {VerificationDocs}

----------------------------------------------------------------------------
(* Pure helpers of CompanyDataManager *)

\* cacheTimeout, in milliseconds
cacheTimeout == 5 * 60 * 1000

\* window.appwriteConfig as appwriteConfig.js builds it: no PROJECT_ID, no BUCKETS
ConfigProjectId == Undefined
ConfigProductsBucket == Undefined

FallbackBucketId == "68b1c57b001542be7fbe"

\* getProductImageUrl: threw is TRUE when imagePath.startsWith is not a function
getProductImageUrl(imagePath) ==
    IF ImageFalsy(imagePath) THEN [threw |-> FALSE, value |-> JsStr(<<>>)]
    ELSE IF imagePath.type # "string" THEN [threw |-> TRUE, value |-> JsUndef]
    ELSE IF StartsWithHttp(imagePath) THEN [threw |-> FALSE, value |-> imagePath]
    ELSE [threw |-> FALSE,
          value |-> JsStr(<<"https://nyc.cloud.appwrite.io/v1/storage/buckets/",
                            IF Truthy(ConfigProductsBucket)
                            THEN ConfigProductsBucket ELSE FallbackBucketId,
                            "/files/">> \o imagePath.text
                          \o <<"/view?project=", ConfigProjectId>>)]

\* Math.random() in units of 1/10000
RandomSamples == {0, 9999}

\* the draws one merged view consumes
RandomDraws == [lat : RandomSamples, lng : RandomSamples, time : RandomSamples]

locationCoords ==
    [loc \in {"Accra, Ghana", "Tema, Ghana", "Kumasi, Ghana", "Takoradi, Ghana",
              "Cape Coast, Ghana", "Ho, Ghana"} |->
       CASE loc = "Accra, Ghana" -> [lat |-> 56037, lng |-> -1870]
         [] loc = "Tema, Ghana" -> [lat |-> 56699, lng |-> -166]
         [] loc = "Kumasi, Ghana" -> [lat |-> 66885, lng |-> -16244]
         [] loc = "Takoradi, Ghana" -> [lat |-> 48845, lng |-> -17554]
         [] loc = "Cape Coast, Ghana" -> [lat |-> 51036, lng |-> -12466]
         [] loc = "Ho, Ghana" -> [lat |-> 66000, lng |-> 4700]]

\* coordinates that ignore the table
generateCoordinatesRandom(location, d) ==
    [lat |-> 56037 + (d.lat - 5000) * 2, lng |-> -1870 + (d.lng - 5000) * 2]

generateCoordinates(location, d) ==
    IF location \in DOMAIN locationCoords THEN locationCoords[location]
    ELSE [lat |-> 56037 + (d.lat - 5000) * 2, lng |-> -1870 + (d.lng - 5000) * 2]

times == <<"10 minutes away", "15 minutes away", "20 minutes away",
           "25 minutes away", "30 minutes away">>

generateTimeText(d) == times[((d.time * Len(times)) \div 10000) + 1]

getFallbackData == <<>>

\* a rule that attaches a child record by its branch only
AttachesByBranchOnly(child, branch) == child.branch_id = branch.branch_id

\* the dual-key rule that attaches a child record to a branch
AttachesTo(child, branch) ==
    child.branch_id = branch.branch_id \/ child.company_id = branch.company_id

\* the four fields tried in the opposite order
VerificationCompanyIdReversed(v) ==
    JsOr(v.company, JsOr(v.companyID, JsOr(v.companyId, v.company_id)))

\* the company identifier of a verification record
VerificationCompanyId(v) ==
    JsOr(v.company_id, JsOr(v.companyId, JsOr(v.companyID, v.company)))

\* the status of the first verification record, whatever company it names
VerificationStatusOfFirst(vf, branch) ==
    IF Len(vf) = 0 THEN JsNull
    ELSE JsOr(vf[1].status,
              JsOr(vf[1].verification_status, vf[1].verificationStatus))

\* the status of the first verification record matching the branch, or null
VerificationStatusOf(vf, branch) ==
    LET i == FirstIndex({j \in 1..Len(vf) :
                            VerificationCompanyId(vf[j]) = branch.company_id})
    IN IF i = 0 THEN JsNull
       ELSE JsOr(vf[i].status,
                 JsOr(vf[i].verification_status, vf[i].verificationStatus))

\* the view of one branch that has a company
MergedCompany(company, branch, wd, pr, sm, vf, d) ==
    [id |-> branch.id,
     branch_id |-> branch.branch_id,
     company_id |-> branch.company_id,
     name |-> company.name,
     branch_name |-> JsOr(branch.branch_name, company.name),
     email |-> branch.email,
     phone_number |-> branch.phone_number,
     location |-> JsOr(branch.location, "Location not specified"),
     description |-> branch.description,
     website |-> branch.website,
     is_online |-> FlagOrFalse(branch.is_online),
     is_active |-> FlagOrFalse(branch.is_active),
     profile_image |-> branch.profile_image,
     header_image |-> branch.header_image,
     branch_type |-> branch.branch_type,
     is_verified |-> VerificationStatusOf(vf, branch) = "verified",
     coordinates |-> generateCoordinates(branch.location, d),
     working_days |-> SelectSeq(wd, LAMBDA w : AttachesTo(w, branch)),
     products |->
        LET bp == SelectSeq(pr, LAMBDA p : AttachesTo(p, branch))
        IN [i \in 1..Len(bp) |->
              [id |-> bp[i].id, branch_id |-> bp[i].branch_id,
               company_id |-> bp[i].company_id, name |-> bp[i].name,
               product_image |-> bp[i].product_image,
               image |-> getProductImageUrl(bp[i].product_image).value]],
     social_media |-> SelectSeq(sm, LAMBDA s : AttachesTo(s, branch)),
     time |-> generateTimeText(d),
     distance |-> JsNull]

\* a join that gives every branch the first cached company
CompanyIndexAny(co, branch) == IF Len(co) = 0 THEN 0 ELSE 1

\* a join that takes the last cached company with the branch's company_id
CompanyIndexLast(co, branch) ==
    LET S == {j \in 1..Len(co) : co[j].company_id = branch.company_id}
    IN IF S = {} THEN 0 ELSE CHOOSE i \in S : \A j \in S : j <= i

\* the index of the company of a branch, 0 if it has none
CompanyIndexOf(co, branch) ==
    FirstIndex({j \in 1..Len(co) : co[j].company_id = branch.company_id})

RECURSIVE MergeFrom(_, _, _, _, _, _, _, _)
MergeFrom(i, co, br, wd, pr, sm, vf, rnd) ==
    IF i > Len(br) THEN <<>>
    ELSE LET ci == CompanyIndexOf(co, br[i])
             rest == MergeFrom(i + 1, co, br, wd, pr, sm, vf, rnd)
         IN IF ci = 0 THEN rest
            ELSE <<MergedCompany(co[ci], br[i], wd, pr, sm, vf, rnd[i])>> \o rest

\* whether the join throws: some attached product has an image reference on
\* which startsWith cannot be called
MergeThrows(co, br, pr) ==
    \E i \in 1..Len(br) :
        /\ CompanyIndexOf(co, br[i]) # 0
        /\ \E j \in 1..Len(pr) :
              /\ AttachesTo(pr[j], br[i])
              /\ getProductImageUrl(pr[j].product_image).threw

\* mergeCompanyAndBranchData over given collections, rnd[i] the draws of branch i
Merge(co, br, wd, pr, sm, vf, rnd) ==
    IF MergeThrows(co, br, pr) THEN [threw |-> TRUE, value |-> <<>>]
    ELSE [threw |-> FALSE, value |-> MergeFrom(1, co, br, wd, pr, sm, vf, rnd)]

----------------------------------------------------------------------------
(* The state of one CompanyDataManager and of its callers *)

VARIABLES
    companies, branches, workingDays, products, socialMedia, verifications,
    isLoading,      \* the busy flag
    lastFetchTime,  \* NullTime, or Date.now() at the last stamp
    now,            \* Date.now()
    calls,          \* the calls made so far, in order; each holds its reads
    storeReads,     \* per collection, the reads issued so far (the store's call count)
    origin,         \* per collection, the call whose fan-in cached it (0: constructor)
    flaky,          \* the collections whose reads the store may fail
    result          \* what the last synchronous call (merge or an accessor) did

cacheVars == <<companies, branches, workingDays, products, socialMedia,
               verifications>>

\* the state of one ScheduleNotificationManager and of the page it decorates
VARIABLES
    links,                   \* the schedule links of the page, in document order
    notificationContainers,  \* this.notificationContainers, as positions of links
    stack,                   \* the frames of the running call, innermost last
    rangeError,              \* whether a call has exhausted the call stack
    orders,                  \* this.orders
    storedOrders,            \* the item phluowiseOrders of localStorage
    containerChildren        \* per link, the children of its container but the svg

notifVars == <<links, notificationContainers, stack, rangeError, orders,
               storedOrders, containerChildren>>

\* the state the auth functions act on: the Appwrite account service, the
\* customer table, the browser, and the calls of signUp and signIn
VARIABLES
    session,        \* the user of the current session of this browser, or NoSession
    accounts,       \* the ids of the accounts created
    customers,      \* the documents of the customer table
    location,       \* window.location.href
    authCalls       \* the calls of signUp and signIn so far, in order

authVars == <<session, accounts, customers, location, authCalls>>

\* the state of the ratings endpoint of server.js
VARIABLES
    requests,       \* the POST /api/ratings requests so far, in order
    ratings         \* the documents of the ratings table

serverVars == <<requests, ratings>>

vars == <<companies, branches, workingDays, products, socialMedia, verifications,
          isLoading, lastFetchTime, now, calls, storeReads, origin, flaky, result,
          notifVars, authVars, serverVars>>

\* this.lastFetchTime = null
NullTime == -1

\* the clock advances by half the freshness window at a time
TickMs == cacheTimeout \div 2

\* Date.now() when the manager is constructed
StartNow == TickMs

\* the six cached collections as one value
Cache ==
    [companies |-> companies, branches |-> branches, workingDays |-> workingDays,
     products |-> products, socialMedia |-> socialMedia,
     verifications |-> verifications]

\* no merge or accessor has been called
NoResult == [op |-> "none", arg |-> Undefined, threw |-> FALSE, value |-> <<>>]

NoReads == [k \in Collections |-> [status |-> "none", documents |-> <<>>]]

PendingRead == [status |-> "pending", documents |-> <<>>]

\* the calls suspended at the await of the fan-in
Awaiting == {c \in 1..Len(calls) : calls[c].pc = "awaiting"}

\* the fan-outs started so far
FanOuts == {c \in 1..Len(calls) : calls[c].path \notin {"busy", "cached"}}

\* state after the constructor
InitManager ==
    /\ companies = <<>>
    /\ branches = <<>>
    /\ workingDays = <<>>
    /\ products = <<>>
    /\ socialMedia = <<>>
    /\ verifications = <<>>
    /\ isLoading = FALSE
    /\ lastFetchTime = NullTime
    /\ now = StartNow
    /\ calls = <<>>
    /\ storeReads = [k \in Collections |-> 0]
    /\ origin = [k \in Collections |-> 0]
    /\ result = NoResult

\* notifications.js is not loaded: its variables keep these values
NoNotificationManager ==
    /\ links = <<>>
    /\ notificationContainers = <<>>
    /\ stack = <<>>
    /\ rangeError = FALSE
    /\ orders = <<>>
    /\ storedOrders = [kind |-> "absent", orders |-> <<>>]
    /\ containerChildren = <<>>

\* no session
NoSession == "none"

\* part_000 is not loaded and nobody has signed up
NoAuthCalls ==
    /\ session = NoSession
    /\ accounts = {}
    /\ customers = {}
    /\ location = "index.html"
    /\ authCalls = <<>>

\* server.js has received no request
NoRequests == requests = <<>> /\ ratings = {}

\* the collections whose reads may fail in the behaviours of Spec
FlakyCollections == {"branches"}

Init == InitManager /\ flaky = FlakyCollections
    /\ NoNotificationManager /\ NoAuthCalls /\ NoRequests

\* the guard of line 19 left out
IsBusyNever == FALSE

\* if (this.isLoading)
IsBusy == isLoading

\* the cache check of line 22 left out
CacheFreshNever(lft) == FALSE

\* this.lastFetchTime && (Date.now() - this.lastFetchTime < this.cacheTimeout)
CacheFresh(lft) == lft # NullTime /\ lft # 0 /\ now - lft < cacheTimeout

\* early returns that hand back the empty fallback
EarlyReturnEmpty == <<>>

\* what the two early returns hand back: return this.companies
EarlyReturnValue == companies

\* the reads the fan-out issues: one per collection
IssuedReads == Collections

\* what a call remembers of the state it found, while it is suspended
NoSnapshot == [cache |-> [k \in Collections |-> <<>>], lastFetchTime |-> NullTime]

\* a call that returned without suspending
ReturnedCall(opName, path, value) ==
    [op |-> opName, pc |-> "returned", path |-> path, ret |-> value,
     resp |-> NoReads, before |-> NoSnapshot]

\* the body of fetchCompanyData up to its first await, reading lft as
\* this.lastFetchTime
fetchCompanyDataFrom(opName, lft) ==
    /\ Len(calls) < MaxCalls
    /\ lastFetchTime' = lft
    /\ IF IsBusy
       THEN /\ calls' = Append(calls, ReturnedCall(opName, "busy", EarlyReturnValue))
            /\ UNCHANGED <<cacheVars, isLoading, now, storeReads, origin, flaky,
                           result, notifVars, authVars,
                   serverVars>>
       ELSE IF CacheFresh(lft)
       THEN /\ calls' = Append(calls, ReturnedCall(opName, "cached", EarlyReturnValue))
            /\ UNCHANGED <<cacheVars, isLoading, now, storeReads, origin, flaky,
                           result, notifVars, authVars,
                   serverVars>>
       ELSE /\ Cardinality(FanOuts) < MaxFanOuts
            /\ isLoading' = TRUE
            /\ calls' = Append(calls,
                  [op |-> opName, pc |-> "awaiting", path |-> "fetching",
                   ret |-> <<>>,
                   resp |-> [k \in Collections |->
                               IF k \in IssuedReads THEN PendingRead
                               ELSE NoReads[k]],
                   before |-> [cache |-> Cache, lastFetchTime |-> lastFetchTime]])
            /\ storeReads' = [k \in Collections |->
                                IF k \in IssuedReads THEN storeReads[k] + 1
                                ELSE storeReads[k]]
            /\ UNCHANGED <<cacheVars, now, origin, flaky, result, notifVars, authVars,
                   serverVars>>

fetchCompanyData == fetchCompanyDataFrom("fetchCompanyData", lastFetchTime)

\* a refresh that forgets to clear the timestamp
refreshWithoutInvalidate ==
    fetchCompanyDataFrom("refreshCompanyData", lastFetchTime)

\* a refresh whose invalidation also empties the cached collections
refreshClearingCache ==
    /\ Len(calls) < MaxCalls
    /\ IsBusy
    /\ lastFetchTime' = NullTime
    /\ companies' = <<>>
    /\ branches' = <<>>
    /\ workingDays' = <<>>
    /\ products' = <<>>
    /\ socialMedia' = <<>>
    /\ verifications' = <<>>
    /\ calls' = Append(calls, ReturnedCall("refreshCompanyData", "busy", <<>>))
    /\ UNCHANGED <<isLoading, now, storeReads, origin, flaky, result, notifVars, authVars,
                   serverVars>>

\* this.lastFetchTime = null; return await this.fetchCompanyData()
refreshCompanyData == fetchCompanyDataFrom("refreshCompanyData", NullTime)

\* the outcomes of one listDocuments call
ReadOutcomes(k) ==
    {[status |-> "fulfilled", documents |-> d] : d \in StoreResults(k)}
    \cup (IF k \in flaky
          THEN {[status |-> "rejected", documents |-> <<>>]} ELSE {})

\* the read of collection k of call c settles
ReadSettles(c, k) ==
    /\ c \in Awaiting
    /\ calls[c].resp[k].status = "pending"
    /\ \E r \in ReadOutcomes(k) : calls' = [calls EXCEPT ![c].resp[k] = r]
    /\ UNCHANGED <<cacheVars, isLoading, lastFetchTime, now, storeReads, origin,
                   flaky, result, notifVars, authVars,
                   serverVars>>

\* what fetchCompanies ... fetchVerifications resolve to: the documents, or []
\* from the catch block (or from the guard that finds no SDK)
FetchResult(r) == IF r.status = "fulfilled" THEN r.documents ELSE <<>>

\* a fan-in that keeps the cached collection when its read failed
AssignedKeepStale(resp, k) ==
    IF resp[k].status = "rejected" THEN Cache[k] ELSE resp[k].documents

\* what the fan-in assigns to this[k] from the responses resp
Assigned(resp, k) == FetchResult(resp[k])

\* a fan-in that replaces only the collections whose read succeeded
ReplacedOnlyFulfilled(resp) == {k \in Collections : resp[k].status = "fulfilled"}

\* the collections the fan-in replaces: all six, whatever their reads did
Replaced(resp) == Collections

\* a try block without its catch: an exception leaves the call rejected
ExitPathNoCatch(m) == IF m.threw THEN "rejected" ELSE "fetched"

\* how the call leaves the try statement: by the return of line 54, or through
\* the catch block when the merge threw
ExitPath(m) == IF m.threw THEN "fallback" ELSE "fetched"

\* what the call resolves to: mergedData, or getFallbackData() from the catch
ExitValue(m) == IF m.threw THEN getFallbackData ELSE m.value

\* a flag cleared at the end of the try block only, not in a finally block
FlagAfterSuccessOnly(m) == m.threw

\* finally { this.isLoading = false }, on either exit
FlagAfterExit(m) == FALSE

\* a join that resumes as soon as one read has settled
JoinedOnFirst(resp) == \E k \in Collections : resp[k].status # "pending"

\* await Promise.all([...]) resumes when every one of the six reads has settled
Joined(resp) == \A k \in Collections : resp[k].status # "pending"

\* Promise.all has resolved: the rest of the try block, catch and finally
FanIn(c) ==
    /\ c \in Awaiting
    /\ Joined(calls[c].resp)
    /\ LET resp == calls[c].resp
           new == [k \in Collections |->
                     IF k \in Replaced(resp) THEN Assigned(resp, k) ELSE Cache[k]]
       IN /\ companies' = new["companies"]
          /\ branches' = new["branches"]
          /\ workingDays' = new["workingDays"]
          /\ products' = new["products"]
          /\ socialMedia' = new["socialMedia"]
          /\ verifications' = new["verifications"]
          /\ lastFetchTime' = now
          /\ origin' = [k \in Collections |->
                          IF k \in Replaced(resp) THEN c ELSE origin[k]]
          /\ \E rnd \in [1..Len(new["branches"]) -> RandomDraws] :
                LET m == Merge(new["companies"], new["branches"],
                               new["workingDays"], new["products"],
                               new["socialMedia"], new["verifications"], rnd)
                IN /\ calls' = [calls EXCEPT
                          ![c].pc = "returned",
                          ![c].path = ExitPath(m),
                          ![c].ret = ExitValue(m),
                          ![c].resp = NoReads,
                          ![c].before = NoSnapshot]
                   /\ isLoading' = FlagAfterExit(m)
    /\ UNCHANGED <<now, storeReads, flaky, result, notifVars, authVars,
                   serverVars>>

\* time passes
Tick ==
    /\ now < StartNow + MaxTicks * TickMs
    /\ now' = now + TickMs
    /\ UNCHANGED <<cacheVars, isLoading, lastFetchTime, calls, storeReads, origin,
                   flaky, result, notifVars, authVars,
                   serverVars>>

Next ==
    \/ fetchCompanyData
    \/ refreshCompanyData
    \/ \E c \in 1..MaxCalls, k \in Collections : ReadSettles(c, k)
    \/ \E c \in 1..MaxCalls : FanIn(c)
    \/ Tick

Spec == Init /\ [][Next]_vars

\* every pending read eventually settles, and a call whose Promise.all has
\* resolved is eventually resumed by the event loop
Fairness ==
    /\ WF_vars(\E c \in 1..MaxCalls, k \in Collections : ReadSettles(c, k))
    /\ WF_vars(\E c \in 1..MaxCalls : FanIn(c))

SpecLive == Spec /\ Fairness

\* forced refreshes against a store that may fail the read of any collection
InitFaults == InitManager /\ flaky = Collections
    /\ NoNotificationManager /\ NoAuthCalls /\ NoRequests

NextFaults ==
    \/ refreshCompanyData
    \/ \E c \in 1..MaxCalls, k \in Collections : ReadSettles(c, k)
    \/ \E c \in 1..MaxCalls : FanIn(c)

SpecFaults == InitFaults /\ [][NextFaults]_vars

\* the collections whose reads fail during an outage of the store
OutageSets == {{}, {"branches"}, {"companies", "products", "verifications"},
               Collections}

\* the read of collection k of call c settles while the collections of flaky
\* are out: it is rejected if k is one of them and fulfilled otherwise
ReadSettlesInOutage(c, k) ==
    /\ c \in Awaiting
    /\ calls[c].resp[k].status = "pending"
    /\ \E r \in IF k \in flaky
                THEN {[status |-> "rejected", documents |-> <<>>]}
                ELSE {[status |-> "fulfilled", documents |-> d] :
                         d \in StoreResults(k)} :
          calls' = [calls EXCEPT ![c].resp[k] = r]
    /\ UNCHANGED <<cacheVars, isLoading, lastFetchTime, now, storeReads, origin,
                   flaky, result, notifVars, authVars,
                   serverVars>>

\* between two fetches an outage begins, ends or moves to other collections
OutageChanges ==
    /\ Awaiting = {}
    /\ flaky' \in OutageSets \ {flaky}
    /\ UNCHANGED <<cacheVars, isLoading, lastFetchTime, now, calls, storeReads,
                   origin, result, notifVars, authVars,
                   serverVars>>

\* both kinds of call against a store with outages
InitOutage == InitManager /\ flaky = {}
    /\ NoNotificationManager /\ NoAuthCalls /\ NoRequests

NextOutage ==
    \/ fetchCompanyData
    \/ refreshCompanyData
    \/ \E c \in 1..MaxCalls, k \in Collections : ReadSettlesInOutage(c, k)
    \/ \E c \in 1..MaxCalls : FanIn(c)
    \/ OutageChanges
    \/ Tick

SpecOutage == InitOutage /\ [][NextOutage]_vars

----------------------------------------------------------------------------
(* Text: the characters of the strings that searchCompanies inspects *)

UpperLetters == <<"A", "B", "C", "D", "E", "F", "G", "H", "I", "J", "K", "L", "M",
                  "N", "O", "P", "Q", "R", "S", "T", "U", "V", "W", "X", "Y", "Z">>

LowerLetters == <<"a", "b", "c", "d", "e", "f", "g", "h", "i", "j", "k", "l", "m",
                  "n", "o", "p", "q", "r", "s", "t", "u", "v", "w", "x", "y", "z">>

\* the characters of the names, e-mail addresses and queries of the model
CharsOf(s) ==
    CASE s = "" -> <<>>
      [] s = "Acme" -> <<"A", "c", "m", "e">>
      [] s = "Apex" -> <<"A", "p", "e", "x">>
      [] s = "Bolt" -> <<"B", "o", "l", "t">>
      [] s = "info@acme.test" ->
            <<"i", "n", "f", "o", "@", "a", "c", "m", "e", ".", "t", "e", "s", "t">>
      [] s = "Hi@Apex.io" -> <<"H", "i", "@", "A", "p", "e", "x", ".", "i", "o">>
      [] s = "ac" -> <<"a", "c">>
      [] s = "AC" -> <<"A", "C">>
      [] s = "PEX" -> <<"P", "E", "X">>
      [] s = "hi@" -> <<"h", "i", "@">>
      [] s = "zz" -> <<"z", "z">>
      [] s = "pending" -> <<"p", "e", "n", "d", "i", "n", "g">>
      [] s = "accepted" -> <<"a", "c", "c", "e", "p", "t", "e", "d">>
      [] s = "completed" -> <<"c", "o", "m", "p", "l", "e", "t", "e", "d">>
      [] s = "Accepted" -> <<"A", "c", "c", "e", "p", "t", "e", "d">>
      [] s = "COMPLETED" -> <<"C", "O", "M", "P", "L", "E", "T", "E", "D">>
      [] s = "cancelled" -> <<"c", "a", "n", "c", "e", "l", "l", "e", "d">>

\* String.prototype.toLowerCase, on characters
toLowerCase(cs) ==
    [i \in 1..Len(cs) |->
        LET u == {j \in 1..Len(UpperLetters) : UpperLetters[j] = cs[i]}
        IN IF u = {} THEN cs[i] ELSE LowerLetters[CHOOSE j \in u : TRUE]]

\* String.prototype.includes, on characters
includes(hay, needle) ==
    \E i \in 0..(Len(hay) - Len(needle)) :
        SubSeq(hay, i + 1, i + Len(needle)) = needle

\* a value on which .toLowerCase() can be called
IsString(x) == x \notin {Undefined, JsNull}

----------------------------------------------------------------------------
(* ScheduleNotificationManager: setting up the notification containers *)

\* the deepest call stack the engine allows, in frames
MaxStack == 6

\* the most schedule links a page has
MaxLinks == 2

\* a schedule link has no svg, an svg, or an svg already wrapped in a
\* .nav-notification-container
LinkKinds == {"none", "bare", "wrapped"}

\* the pages: every list of up to MaxLinks schedule links
Pages == UNION {[1..n -> LinkKinds] : n \in 0..MaxLinks}

Frame(fn) == [fn |-> fn, pc |-> "body"]

\* the running function calls fn: a new frame, or a RangeError that no
\* function catches when the stack is full
CallFrom(fn) ==
    IF Len(stack) = MaxStack
    THEN stack' = <<>> /\ rangeError' = TRUE
    ELSE /\ stack' = [stack EXCEPT ![Len(stack)].pc = "called"] \o <<Frame(fn)>>
         /\ UNCHANGED rangeError

\* the running function returns to its caller
ReturnToCaller == stack' = SubSeq(stack, 1, Len(stack) - 1)

\* the body of the running function is fn's, not yet run
Running(fn) ==
    /\ stack # <<>>
    /\ stack[Len(stack)].fn = fn
    /\ stack[Len(stack)].pc = "body"

\* the other variables of the module, which notifications.js does not touch
managerVars == <<cacheVars, isLoading, lastFetchTime, now, calls, storeReads,
                 origin, flaky, result>>

\* the longest list of orders
MaxOrders == 2

\* the status of a stored order: the three known ones in several spellings,
\* an unknown one, or none
StatusPool == {"pending", "Accepted", "COMPLETED", "cancelled", Undefined}

\* an order, of which the manager reads the status only
Order(status) == [status |-> status]

OrderLists ==
    UNION {[1..n -> {Order(st) : st \in StatusPool}] : n \in 0..MaxOrders}

\* what localStorage holds under phluowiseOrders: nothing, text that is not
\* JSON, or the JSON text of a list of orders
Storages ==
    {[kind |-> "absent", orders |-> <<>>], [kind |-> "corrupt", orders |-> <<>>]}
    \cup {[kind |-> "json", orders |-> os] : os \in OrderLists}

\* loadOrders: the parsed list, [] when there is no item or JSON.parse throws
loadOrders(stored) == IF stored.kind = "json" THEN stored.orders ELSE <<>>

\* the keys of the counts object
StatusKeys == {"pending", "accepted", "completed"}

\* getOrderStatusCounts: per key, the orders whose lower-cased status is the key
getOrderStatusCounts(os) ==
    [k \in StatusKeys |->
        Cardinality({i \in 1..Len(os) :
                        toLowerCase(CharsOf(JsOr(os[i].status, ""))) = CharsOf(k)})]

\* a completed dot whenever an order is completed
notificationsToShowEachStatus(counts) ==
    (IF counts["pending"] > 0 THEN <<"pending">> ELSE <<>>)
    \o (IF counts["accepted"] > 0 THEN <<"accepted">> ELSE <<>>)
    \o (IF counts["completed"] > 0 THEN <<"completed">> ELSE <<>>)

\* notificationsToShow as lines 206-222 fill it
notificationsToShow(counts) ==
    (IF counts["pending"] > 0 THEN <<"pending">> ELSE <<>>)
    \o (IF counts["accepted"] > 0 THEN <<"accepted">> ELSE <<>>)
    \o (IF /\ counts["completed"] > 0
           /\ counts["pending"] = 0
           /\ counts["accepted"] = 0
        THEN <<"completed">> ELSE <<>>)

getExpectedBehavior(counts) ==
    IF counts["pending"] > 0 /\ counts["accepted"] > 0
    THEN "Both yellow and green dots should appear"
    ELSE IF counts["pending"] > 0 THEN "Yellow dot should appear"
    ELSE IF counts["accepted"] > 0 THEN "Green dot should appear"
    ELSE IF /\ counts["completed"] > 0
            /\ counts["pending"] = 0
            /\ counts["accepted"] = 0
    THEN "Grey dot should appear"
    ELSE "No notification dot should appear"

\* the classes querySelectorAll('.nav-notification-dot, .nav-notification-multiple')
\* selects
IndicatorClasses == {"nav-notification-dot", "nav-notification-multiple"}

\* the element lines 237-257 append: one dot, or a group of dots
Indicator(toShow) ==
    [class |-> IF Len(toShow) = 1 THEN "nav-notification-dot"
               ELSE "nav-notification-multiple",
     statuses |-> toShow]

\* an update that removes nothing
KeepIndicators(children) == children

\* lines 196-200: every indicator element is removed from the container
WithoutIndicators(children) ==
    SelectSeq(children, LAMBDA e : e.class \notin IndicatorClasses)

\* what lines 195-258 leave in a container
Redrawn(children, os) ==
    LET toShow == notificationsToShow(getOrderStatusCounts(os))
        cleared == WithoutIndicators(children)
    IN IF Len(toShow) = 0 THEN cleared ELSE Append(cleared, Indicator(toShow))

\* what the markup of a page can hold in the container of a link: nothing, or
\* for a container that is part of the markup a dot
MarkupChildren(kind) ==
    IF kind = "wrapped"
    THEN {<<>>, <<[class |-> "nav-notification-dot", statuses |-> <<"pending">>]>>}
    ELSE {<<>>}

\* the container children a page with the given links can load with
MarkupOf(ls) ==
    {ch \in [1..Len(ls) -> UNION {MarkupChildren(k) : k \in LinkKinds}] :
        \A i \in 1..Len(ls) : ch[i] \in MarkupChildren(ls[i])}

\* init() on a loaded document: loadOrders, then setupNotifications
EnterSetupNotifications ==
    /\ stack = <<>>
    /\ orders' = loadOrders(storedOrders)
    /\ stack' = <<Frame("setupNotifications")>>
    /\ UNCHANGED <<links, notificationContainers, rangeError, storedOrders,
                   containerChildren, managerVars,
                   authVars, serverVars>>

\* the timer, the storage listener or forceUpdate: loadOrders, then
\* updateNotifications
EnterUpdateNotifications ==
    /\ stack = <<>>
    /\ orders' = loadOrders(storedOrders)
    /\ stack' = <<Frame("updateNotifications")>>
    /\ UNCHANGED <<links, notificationContainers, rangeError, storedOrders,
                   containerChildren, managerVars,
                   authVars, serverVars>>

\* addTestOrder(status): push the order, save the list, updateNotifications
addTestOrder ==
    /\ stack = <<>>
    /\ Len(orders) < MaxOrders
    /\ \E st \in StatusPool \ {Undefined} :
          /\ orders' = Append(orders, Order(st))
          /\ storedOrders' = [kind |-> "json", orders |-> Append(orders, Order(st))]
    /\ stack' = <<Frame("updateNotifications")>>
    /\ UNCHANGED <<links, notificationContainers, rangeError, containerChildren,
                   managerVars,
                   authVars, serverVars>>

\* setupNotifications: empty the list, wrap each bare svg, push the container
\* of each link that has an svg, then call updateNotifications
setupNotifications ==
    /\ Running("setupNotifications")
    /\ links' = [i \in 1..Len(links) |->
                    IF links[i] = "bare" THEN "wrapped" ELSE links[i]]
    /\ notificationContainers' =
          SelectSeq([i \in 1..Len(links) |-> i], LAMBDA i : links[i] # "none")
    /\ CallFrom("updateNotifications")
    /\ UNCHANGED <<orders, storedOrders, containerChildren, managerVars,
                   authVars, serverVars>>

\* updateNotifications: with no container call setupNotifications and return;
\* otherwise redraw the indicator of every container and return
updateNotifications ==
    /\ Running("updateNotifications")
    /\ IF Len(notificationContainers) = 0
       THEN /\ CallFrom("setupNotifications")
            /\ UNCHANGED containerChildren
       ELSE /\ containerChildren' =
                  [i \in 1..Len(links) |->
                      IF \E c \in 1..Len(notificationContainers) :
                            notificationContainers[c] = i
                      THEN Redrawn(containerChildren[i], orders)
                      ELSE containerChildren[i]]
            /\ ReturnToCaller
            /\ UNCHANGED rangeError
    /\ UNCHANGED <<links, notificationContainers, orders, storedOrders,
                   managerVars,
                   authVars, serverVars>>

\* the call a function made has returned and the function returns too
ReturnAfterCall ==
    /\ stack # <<>>
    /\ stack[Len(stack)].pc = "called"
    /\ ReturnToCaller
    /\ UNCHANGED <<links, notificationContainers, rangeError, orders,
                   storedOrders, containerChildren, managerVars,
                   authVars, serverVars>>

\* between two calls the user opens another page: its script constructs a new
\* manager, with no orders and no containers
PageChanges ==
    /\ stack = <<>>
    /\ links' \in Pages \ {links}
    /\ containerChildren' \in MarkupOf(links')
    /\ notificationContainers' = <<>>
    /\ orders' = <<>>
    /\ UNCHANGED <<stack, rangeError, storedOrders, managerVars,
                   authVars, serverVars>>

\* between two calls another page or tab rewrites the stored orders
StorageChanges ==
    /\ stack = <<>>
    /\ storedOrders' \in Storages \ {storedOrders}
    /\ UNCHANGED <<links, notificationContainers, stack, rangeError, orders,
                   containerChildren, managerVars,
                   authVars, serverVars>>

\* the manager as its constructor leaves it before init() runs, on any page
InitNotifications ==
    /\ InitManager
    /\ flaky = {}
    /\ links \in Pages
    /\ containerChildren \in MarkupOf(links)
    /\ notificationContainers = <<>>
    /\ stack = <<>>
    /\ rangeError = FALSE
    /\ orders = <<>>
    /\ storedOrders \in Storages
    /\ NoAuthCalls
    /\ NoRequests

NextNotifications ==
    \/ EnterSetupNotifications
    \/ EnterUpdateNotifications
    \/ addTestOrder
    \/ setupNotifications
    \/ updateNotifications
    \/ ReturnAfterCall
    \/ PageChanges
    \/ StorageChanges

SpecNotifications == InitNotifications /\ [][NextNotifications]_vars

----------------------------------------------------------------------------
(* The cached collections the synchronous operations are applied to: what  *)
(* completed refreshes can leave in the cache                              *)

\* the longest list of documents drawn from a pool
MaxDocs == 2

\* the lists of distinct documents of Pool, up to MaxDocs long
ListsOf(Pool) ==
    UNION {{s \in [1..n -> Pool] : \A i, j \in 1..n : s[i] = s[j] => i = j} :
              n \in 0..MaxDocs}

\* companies: one with every field, one with no e-mail address, one that
\* shares its company_id with the first
CompanyPool ==
    {CompanyDocs[1],
     [id |-> "doc_co2", company_id |-> "c2", name |-> "Bolt", email |-> JsNull],
     [id |-> "doc_co3", company_id |-> "c1", name |-> "Apex",
      email |-> "Hi@Apex.io"]}

\* a second branch of c1, at a location the table does not know
BranchOfC1Elsewhere ==
    [id |-> "doc_br3", branch_id |-> "b3", company_id |-> "c1",
     branch_name |-> "Osu", email |-> Undefined,
     phone_number |-> Undefined, location |-> "Osu",
     description |-> Undefined, website |-> Undefined,
     is_online |-> "false", is_active |-> "true", disabled |-> "false",
     profile_image |-> Undefined, header_image |-> Undefined,
     branch_type |-> Undefined]

\* a branch of c2
BranchOfC2 ==
    [id |-> "doc_br4", branch_id |-> "b4", company_id |-> "c2",
     branch_name |-> Undefined, email |-> Undefined,
     phone_number |-> Undefined, location |-> "Tema, Ghana",
     description |-> Undefined, website |-> Undefined,
     is_online |-> "true", is_active |-> "true", disabled |-> "false",
     profile_image |-> Undefined, header_image |-> Undefined,
     branch_type |-> Undefined]

BranchPool == {BranchDocs[1], BranchDocs[2], BranchOfC1Elsewhere, BranchOfC2}

\* the scopes of a child record: branch only, company only, a branch and
\* another company, none
ScopePool ==
    {[id |-> "doc_ch1", branch_id |-> "b1", company_id |-> Undefined],
     [id |-> "doc_ch2", branch_id |-> Undefined, company_id |-> "c1"],
     [id |-> "doc_ch3", branch_id |-> "b1", company_id |-> "c2"],
     [id |-> "doc_ch4", branch_id |-> Undefined, company_id |-> Undefined]}

WorkingDayOf(s) ==
    [id |-> s.id, branch_id |-> s.branch_id, company_id |-> s.company_id,
     day |-> "Monday", time |-> "8-17"]

ProductOf(s, image) ==
    [id |-> s.id, branch_id |-> s.branch_id, company_id |-> s.company_id,
     name |-> "Water", product_image |-> image]

SocialMediaOf(s) ==
    [id |-> s.id, branch_id |-> s.branch_id, company_id |-> s.company_id,
     platform |-> "x", url |-> "https://x.test/acme"]

\* the image references a product document can carry
ImagePool ==
    {JsStr(<<"p1.png">>), JsStr(<<"http://cdn.example/p1.png">>), JsStr(<<>>),
     JsUndef, JsNum, JsStr(<<"http-banner.png">>)}

VerificationOf(id, cid, cId, cID, co, st, vst, vSt) ==
    [id |-> id, company_id |-> cid, companyId |-> cId, companyID |-> cID,
     company |-> co, status |-> st, verification_status |-> vst,
     verificationStatus |-> vSt]

\* verification records: verified under each spelling, other statuses, another
\* company, no company identifier, no status
VerificationPool ==
    {VerificationDocs[1],
     VerificationOf("doc_v2", Undefined, "c1", Undefined, Undefined,
                    Undefined, "verified", Undefined),
     VerificationOf("doc_v3", "c1", Undefined, Undefined, Undefined,
                    "pending", "verified", Undefined),
     VerificationOf("doc_v4", "c2", Undefined, Undefined, "c1",
                    "verified", Undefined, Undefined),
     VerificationOf("doc_v5", Undefined, Undefined, Undefined, Undefined,
                    "verified", Undefined, Undefined),
     VerificationOf("doc_v6", Undefined, Undefined, Undefined, "c1",
                    Undefined, Undefined, Undefined),
     VerificationOf("doc_v7", Undefined, Undefined, "c1", Undefined,
                    "Verified", Undefined, Undefined)}

CacheOf(co, br, wd, pr, sm, vf) ==
    [companies |-> co, branches |-> br, workingDays |-> wd, products |-> pr,
     socialMedia |-> sm, verifications |-> vf]

\* two companies and three branches, two of them of the same company
TwoCompanies == <<CompanyDocs[1], [id |-> "doc_co2", company_id |-> "c2",
                                   name |-> "Bolt", email |-> JsNull]>>

ThreeBranches == <<BranchDocs[1], BranchOfC1Elsewhere, BranchOfC2>>

\* every list of companies with every list of branches
JoinInputs ==
    {CacheOf(co, br, WorkingDayDocs, ProductDocs, SocialMediaDocs,
             VerificationDocs) : co \in ListsOf(CompanyPool),
                                 br \in ListsOf(BranchPool)}

\* every list of child scopes, the same for the three child collections
ChildInputs ==
    {CacheOf(TwoCompanies, ThreeBranches,
             [i \in 1..Len(sc) |-> WorkingDayOf(sc[i])],
             [i \in 1..Len(sc) |-> ProductOf(sc[i], JsStr(<<"p1.png">>))],
             [i \in 1..Len(sc) |-> SocialMediaOf(sc[i])],
             <<>>) : sc \in ListsOf(ScopePool)}

\* every list of verification records
VerificationInputs ==
    {CacheOf(TwoCompanies, ThreeBranches, <<>>, <<>>, <<>>, vf) :
        vf \in ListsOf(VerificationPool)}

\* the $id of the i-th product of a list
ProductIds == <<"doc_p1", "doc_p2", "doc_p3", "doc_p4", "doc_p5">>

\* every list of image references, on products of company c1
ImageInputs ==
    {CacheOf(TwoCompanies, ThreeBranches, <<>>,
             [i \in 1..Len(im) |->
                 ProductOf([id |-> ProductIds[i], branch_id |-> Undefined,
                            company_id |-> "c1"], im[i])],
             <<>>, <<>>) : im \in ListsOf(ImagePool)}

\* a branch of c1 with the given is_online and is_active flags
FlagBranch(id, branchId, online, active) ==
    [BranchOfC1Elsewhere EXCEPT !.id = id, !.branch_id = branchId,
                                !.is_online = online, !.is_active = active]

\* branches with each flag set, cleared and missing
FlagPool ==
    {BranchDocs[1],
     FlagBranch("doc_br5", "b5", "true", Undefined),
     FlagBranch("doc_br6", "b6", Undefined, "false"),
     FlagBranch("doc_br7", "b7", "false", "true")}

\* every list of flagged branches
FlagInputs ==
    {CacheOf(TwoCompanies, br, <<>>, <<>>, <<>>, <<>>) : br \in ListsOf(FlagPool)}

AccessorInputs ==
    JoinInputs \cup ChildInputs \cup VerificationInputs \cup ImageInputs
        \cup FlagInputs

----------------------------------------------------------------------------
(* The synchronous operations: the join and the accessors *)

\* Array.prototype.find: the element at the first index of S as a list of one,
\* the empty list for undefined
Found(s, S) == IF S = {} THEN <<>> ELSE <<s[FirstIndex(S)]>>

\* this.companies.find(c => c.$id === companyId)
getCompanyById(companyId) ==
    Found(companies, {j \in 1..Len(companies) : companies[j].id = companyId})

\* this.branches.find(b => b.$id === branchId)
getBranchById(branchId) ==
    Found(branches, {j \in 1..Len(branches) : branches[j].id = branchId})

\* whether the filter callback of searchCompanies throws on a company: name is
\* read first, email only when the name does not contain the term
SearchThrowsOn(company, term) ==
    \/ ~IsString(company.name)
    \/ /\ ~includes(toLowerCase(CharsOf(company.name)), term)
       /\ ~IsString(company.email)

\* the filter callback of searchCompanies
SearchMatches(company, term) ==
    \/ includes(toLowerCase(CharsOf(company.name)), term)
    \/ includes(toLowerCase(CharsOf(company.email)), term)

searchCompanies(query) ==
    LET searchTerm == toLowerCase(CharsOf(query))
    IN IF \E j \in 1..Len(companies) : SearchThrowsOn(companies[j], searchTerm)
       THEN [threw |-> TRUE, value |-> <<>>]
       ELSE [threw |-> FALSE,
             value |-> SelectSeq(companies,
                                 LAMBDA c : SearchMatches(c, searchTerm))]

\* mergeCompanyAndBranchData on the cached collections
mergeCompanyAndBranchData(rnd) ==
    Merge(companies, branches, workingDays, products, socialMedia,
          verifications, rnd)

\* this.mergeCompanyAndBranchData().filter(company => company[flag])
FilteredMerge(rnd, flag) ==
    LET m == mergeCompanyAndBranchData(rnd)
    IN IF m.threw THEN m
       ELSE [threw |-> FALSE, value |-> SelectSeq(m.value, LAMBDA v : v[flag])]

getOnlineCompanies(rnd) == FilteredMerge(rnd, "is_online")

getActiveCompanies(rnd) == FilteredMerge(rnd, "is_active")

\* the filter callback of the three branch listers
ListedForBranch(child, branchId) ==
    child.branch_id = branchId \/ child.company_id = branchId

\* the filter callback of the three company listers
ListedForCompany(child, companyId) == child.company_id = companyId

getWorkingDaysForBranch(branchId) ==
    SelectSeq(workingDays, LAMBDA wd : ListedForBranch(wd, branchId))

getWorkingDaysForCompany(companyId) ==
    SelectSeq(workingDays, LAMBDA wd : ListedForCompany(wd, companyId))

getProductsForBranch(branchId) ==
    SelectSeq(products, LAMBDA product : ListedForBranch(product, branchId))

getProductsForCompany(companyId) ==
    SelectSeq(products, LAMBDA product : ListedForCompany(product, companyId))

getSocialMediaForBranch(branchId) ==
    SelectSeq(socialMedia, LAMBDA sm : ListedForBranch(sm, branchId))

getSocialMediaForCompany(companyId) ==
    SelectSeq(socialMedia, LAMBDA sm : ListedForCompany(sm, companyId))

\* a map callback that writes the image into the cached product itself
ProductsMappedInPlace(pr) ==
    [i \in 1..Len(pr) |->
        [id |-> pr[i].id, branch_id |-> pr[i].branch_id,
         company_id |-> pr[i].company_id, name |-> pr[i].name,
         product_image |-> getProductImageUrl(pr[i].product_image).value]]

\* this.products after the join: ({...product, image}) builds a new object for
\* the view and writes nothing to the cached one
ProductsAfterMap(pr) == pr

\* the identifiers, queries and image references the callers pass
LookupArgs == {"c1", "c2", "b1", "b3", "b4", "doc_co1", "doc_br1", "doc_br4"}

QueryArgs == {"", "ac", "AC", "PEX", "hi@", "zz"}

\* an operation that assigns to nothing answers its caller; the operations are
\* synchronous, so one starts only when the previous one has returned
Answer(opName, arg, r) ==
    /\ result = NoResult
    /\ result' = [op |-> opName, arg |-> arg, threw |-> r.threw, value |-> r.value]
    /\ UNCHANGED <<cacheVars, isLoading, lastFetchTime, now, calls, storeReads,
                   origin, flaky, notifVars, authVars,
                   serverVars>>

\* an operation that runs the join answers its caller
AnswerJoin(opName, r) ==
    /\ result = NoResult
    /\ result' = [op |-> opName, arg |-> Undefined, threw |-> r.threw,
                  value |-> r.value]
    /\ products' = ProductsAfterMap(products)
    /\ UNCHANGED <<companies, branches, workingDays, socialMedia, verifications,
                   isLoading, lastFetchTime, now, calls, storeReads, origin,
                   flaky, notifVars, authVars,
                   serverVars>>

\* a value returned without an exception
Returned(v) == [threw |-> FALSE, value |-> v]

CallMerge ==
    \E rnd \in [1..Len(branches) -> RandomDraws] :
        AnswerJoin("mergeCompanyAndBranchData", mergeCompanyAndBranchData(rnd))

CallGetOnlineCompanies ==
    \E rnd \in [1..Len(branches) -> RandomDraws] :
        AnswerJoin("getOnlineCompanies", getOnlineCompanies(rnd))

CallGetActiveCompanies ==
    \E rnd \in [1..Len(branches) -> RandomDraws] :
        AnswerJoin("getActiveCompanies", getActiveCompanies(rnd))

CallGetCompanyById ==
    \E x \in LookupArgs : Answer("getCompanyById", x, Returned(getCompanyById(x)))

CallGetBranchById ==
    \E x \in LookupArgs : Answer("getBranchById", x, Returned(getBranchById(x)))

CallSearchCompanies ==
    \E q \in QueryArgs : Answer("searchCompanies", q, searchCompanies(q))

CallGetWorkingDaysForBranch ==
    \E x \in LookupArgs :
        Answer("getWorkingDaysForBranch", x, Returned(getWorkingDaysForBranch(x)))

CallGetWorkingDaysForCompany ==
    \E x \in LookupArgs :
        Answer("getWorkingDaysForCompany", x, Returned(getWorkingDaysForCompany(x)))

CallGetProductsForBranch ==
    \E x \in LookupArgs :
        Answer("getProductsForBranch", x, Returned(getProductsForBranch(x)))

CallGetProductsForCompany ==
    \E x \in LookupArgs :
        Answer("getProductsForCompany", x, Returned(getProductsForCompany(x)))

CallGetSocialMediaForBranch ==
    \E x \in LookupArgs :
        Answer("getSocialMediaForBranch", x, Returned(getSocialMediaForBranch(x)))

CallGetSocialMediaForCompany ==
    \E x \in LookupArgs :
        Answer("getSocialMediaForCompany", x, Returned(getSocialMediaForCompany(x)))

CallGetProductImageUrl ==
    \E image \in ImagePool :
        LET r == getProductImageUrl(image)
        IN Answer("getProductImageUrl", image,
                  [threw |-> r.threw, value |-> <<r.value>>])

\* the caller has taken the returned value
TakeResult ==
    /\ result # NoResult
    /\ result' = NoResult
    /\ UNCHANGED <<cacheVars, isLoading, lastFetchTime, now, calls, storeReads,
                   origin, flaky, notifVars, authVars,
                   serverVars>>

\* no draw of Math.random
NoDraws(br) == [i \in 1..Len(br) |-> [lat |-> 0, lng |-> 0, time |-> 0]]

\* the refresh that cached the collections c
CompletedRefresh(c) ==
    LET m == Merge(c.companies, c.branches, c.workingDays, c.products,
                   c.socialMedia, c.verifications, NoDraws(c.branches))
    IN [op |-> "refreshCompanyData", pc |-> "returned", path |-> ExitPath(m),
        ret |-> ExitValue(m), resp |-> NoReads, before |-> NoSnapshot]

\* an idle manager after one completed refresh
InitAccessors ==
    \E c \in AccessorInputs :
        /\ companies = c.companies
        /\ branches = c.branches
        /\ workingDays = c.workingDays
        /\ products = c.products
        /\ socialMedia = c.socialMedia
        /\ verifications = c.verifications
        /\ isLoading = FALSE
        /\ lastFetchTime = StartNow
        /\ now = StartNow
        /\ calls = <<CompletedRefresh(c)>>
        /\ storeReads = [k \in Collections |-> 1]
        /\ origin = [k \in Collections |-> 1]
        /\ flaky = {}
        /\ result = NoResult
        /\ NoNotificationManager
        /\ NoAuthCalls
        /\ NoRequests

NextAccessors ==
    \/ CallMerge
    \/ CallGetOnlineCompanies
    \/ CallGetActiveCompanies
    \/ CallGetCompanyById
    \/ CallGetBranchById
    \/ CallSearchCompanies
    \/ CallGetWorkingDaysForBranch
    \/ CallGetWorkingDaysForCompany
    \/ CallGetProductsForBranch
    \/ CallGetProductsForCompany
    \/ CallGetSocialMediaForBranch
    \/ CallGetSocialMediaForCompany
    \/ CallGetProductImageUrl
    \/ TakeResult

SpecAccessors == InitAccessors /\ [][NextAccessors]_vars

----------------------------------------------------------------------------
(* Vocabulary of the properties *)

\* this step is a call of fetchCompanyData or refreshCompanyData
CallStep == Len(calls') = Len(calls) + 1

\* the call a CallStep adds
NewCall == calls'[Len(calls')]

\* this step is the fan-in of call c
FanInStep(c) == c \in Awaiting /\ calls'[c].pc = "returned"

\* a sequence of views or records without the two randomized fields
StripRandom(s) ==
    [i \in 1..Len(s) |->
        [f \in (DOMAIN s[i]) \ {"time", "coordinates"} |-> s[i][f]]]

\* whether merge() throws on the cached collections
CachedMergeThrows == MergeThrows(companies, branches, products)

\* merge() of the cached collections, without the two randomized fields
CachedMergedView ==
    StripRandom(MergeFrom(1, companies, branches, workingDays, products,
                          socialMedia, verifications,
                          [i \in 1..Len(branches) |->
                              [lat |-> 0, lng |-> 0, time |-> 0]]))

\* the same of the collections as this step leaves them
CachedMergedViewAfter ==
    StripRandom(MergeFrom(1, companies', branches', workingDays', products',
                          socialMedia', verifications',
                          [i \in 1..Len(branches') |->
                              [lat |-> 0, lng |-> 0, time |-> 0]]))

\* the reads of every collection that are pending, over all calls
PendingReads(k) ==
    {c \in 1..Len(calls) : calls[c].resp[k].status = "pending"}

\* this step issues one read of every collection
ReadsEveryCollection ==
    \A k \in Collections : storeReads'[k] = storeReads[k] + 1

----------------------------------------------------------------------------
(* C1: at most one fan-out is in flight at any time, and a call that       *)
(* arrives while isLoading is true issues no store read.                   *)

C1_AtMostOneFanOut ==
    /\ [](/\ Cardinality(Awaiting) <= 1
          /\ \A k \in Collections : Cardinality(PendingReads(k)) <= 1)
    /\ [][(CallStep /\ isLoading) =>
             (storeReads' = storeReads /\ NewCall.pc = "returned"
              /\ NewCall.resp = NoReads)]_vars

\* a call arrived while another one was suspended on its fan-out
C1_Witness ==
    \E c \in Awaiting : \E d \in 1..Len(calls) : d > c /\ calls[d].path = "busy"

----------------------------------------------------------------------------
(* C2: two fetchCompanyData calls issued before either resolves cause one  *)
(* fan-out.  As stated, both return the snapshot that fan-out produces;    *)
(* as amended, only the call that started the fan-out does (or the empty   *)
(* fallback when the merge throws), and the call that arrives meanwhile    *)
(* returns at once what was cached when it arrived.                        *)

\* the fan-out during which the busy call d arrived
BlockedBy(d) ==
    CHOOSE c \in FanOuts : c < d /\ \A e \in FanOuts : e < d => e <= c

\* the pairs (c, d): d is a fetchCompanyData call that arrived while the
\* fetchCompanyData call c was suspended, and c has returned since
ConcurrentPairs ==
    {p \in (1..Len(calls)) \X (1..Len(calls)) :
        /\ calls[p[2]].path = "busy"
        /\ p[1] \in FanOuts /\ p[1] < p[2] /\ BlockedBy(p[2]) = p[1]
        /\ calls[p[1]].op = "fetchCompanyData"
        /\ calls[p[2]].op = "fetchCompanyData"
        /\ calls[p[1]].pc = "returned"}

\* C2 as stated: both calls return the same resulting snapshot
C2_SameSnapshot ==
    \A p \in ConcurrentPairs : calls[p[2]].ret = calls[p[1]].ret

\* C2 as amended: a call that arrives during a fan-out reads nothing and
\* returns the cached companies at once; a call that suspends has issued one
\* read per collection and no other fan-out is in flight; the call that started
\* the fan-out returns the merged view of what it cached, or the empty fallback
C2_Amended ==
    /\ [][(CallStep /\ Awaiting # {}) =>
             (/\ storeReads' = storeReads
              /\ NewCall.pc = "returned"
              /\ NewCall.ret = companies
              /\ Awaiting' = Awaiting)]_vars
    /\ [][(CallStep /\ NewCall.pc = "awaiting") =>
             (ReadsEveryCollection /\ Awaiting = {})]_vars
    /\ [][\A c \in 1..Len(calls) : FanInStep(c) =>
             IF CachedMergeThrows' THEN calls'[c].ret = <<>>
             ELSE StripRandom(calls'[c].ret) = CachedMergedViewAfter]_vars

\* two concurrent calls, the first of which returned a view the second did not
C2_Witness ==
    \E p \in ConcurrentPairs :
        /\ calls[p[1]].path = "fetched"
        /\ calls[p[1]].ret # <<>>
        /\ \A k \in Collections : storeReads[k] = 1

----------------------------------------------------------------------------
(* C3: a call that arrives while a fetch is in flight returns at once the  *)
(* merged view of the collections cached at that moment.                   *)

C3_BusyReturnsMergedView ==
    [][(CallStep /\ isLoading /\ ~CachedMergeThrows) =>
          (NewCall.pc = "returned" /\ StripRandom(NewCall.ret) = CachedMergedView)]_vars

----------------------------------------------------------------------------
(* C4: a non-forced fetchCompanyData issued when no fetch is in flight and *)
(* less than cacheTimeout after the last stamp reads nothing from the      *)
(* store, so two such calls within one window read every collection once.  *)

C4_FreshCacheNoRead ==
    /\ [][(/\ CallStep
           /\ NewCall.op = "fetchCompanyData"
           /\ ~isLoading
           /\ lastFetchTime # NullTime
           /\ now - lastFetchTime < cacheTimeout) =>
             (storeReads' = storeReads /\ NewCall.pc = "returned")]_vars
    /\ []((/\ Len(calls) = 2
           /\ \A c \in 1..2 : calls[c].op = "fetchCompanyData"
           /\ now - StartNow < cacheTimeout) =>
             \A k \in Collections : storeReads[k] = 1)

\* the second of two calls was answered from a cache stamped one tick earlier
C4_Witness ==
    /\ Len(calls) = 2
    /\ calls[1].path = "fetched"
    /\ calls[2].path = "cached"
    /\ calls[2].op = "fetchCompanyData"
    /\ lastFetchTime # NullTime
    /\ now - lastFetchTime = TickMs

----------------------------------------------------------------------------
(* C5: on a cache hit the returned value is the merged view of the cached  *)
(* collections, the shape a cache-miss call returns.                       *)

C5_CacheHitReturnsMergedView ==
    [][(CallStep /\ NewCall.path = "cached" /\ ~CachedMergeThrows) =>
          StripRandom(NewCall.ret) = CachedMergedView]_vars

----------------------------------------------------------------------------
(* C6: a forced fetch (refreshCompanyData: the invalidation, then the      *)
(* fetch) issues a new read of every collection however recent the stamp.  *)
(* As stated this covers a forced fetch that arrives while a fetch is in   *)
(* flight; as amended it is limited to calls made while none is.           *)

\* this call is a forced fetch: the invalidation followed by fetchCompanyData
ForcedCall == NewCall.op = "refreshCompanyData"

\* C6 as stated: every forced fetch issues one read of every collection
C6_ForcedAlwaysReads ==
    [][(CallStep /\ ForcedCall) => ReadsEveryCollection]_vars

\* C6 as amended: a forced fetch made while idle issues one read of every
\* collection; one made while a fetch is in flight issues none
C6_Amended ==
    /\ [][(CallStep /\ ForcedCall /\ ~isLoading) =>
             (ReadsEveryCollection /\ NewCall.pc = "awaiting")]_vars
    /\ [][(CallStep /\ ForcedCall /\ isLoading) =>
             (storeReads' = storeReads /\ NewCall.pc = "returned")]_vars

\* a refresh started a fan-out although the stamp it cleared was still fresh
C6_Witness ==
    \E c \in Awaiting :
        /\ calls[c].op = "refreshCompanyData"
        /\ calls[c].before.lastFetchTime # NullTime
        /\ now - calls[c].before.lastFetchTime < cacheTimeout
        /\ \A k \in Collections : storeReads[k] = 2

----------------------------------------------------------------------------
(* C7: the invalidation of refreshCompanyData clears the timestamp and     *)
(* nothing else: the six cached collections are unchanged, the busy flag   *)
(* changes only when the fetch that follows starts a fan-out, and the      *)
(* cached data stays until a fan-in replaces it.                           *)

C7_InvalidateFrame ==
    /\ [][(CallStep /\ NewCall.op = "refreshCompanyData") =>
             (/\ lastFetchTime' = NullTime
              /\ Cache' = Cache
              /\ origin' = origin
              /\ SubSeq(calls', 1, Len(calls)) = calls
              /\ isLoading => (isLoading' /\ storeReads' = storeReads)
              /\ (isLoading' # isLoading) => NewCall.pc = "awaiting")]_vars
    /\ [][(Cache' # Cache) => \E c \in 1..Len(calls) : FanInStep(c)]_vars

\* a refresh arrived while busy: timestamp cleared, stale data still cached
C7_Witness ==
    /\ isLoading
    /\ lastFetchTime = NullTime
    /\ companies # <<>>
    /\ \E d \in 1..Len(calls) :
          calls[d].op = "refreshCompanyData" /\ calls[d].path = "busy"

----------------------------------------------------------------------------
(* C8: the six cached collections always come from one and the same        *)
(* completed fan-in (or are all the constructor's empty arrays); the cache *)
(* changes in no step other than a fan-in, which replaces all six.         *)

C8_SingleSnapshot ==
    /\ [](/\ \A k1, k2 \in Collections : origin[k1] = origin[k2]
          /\ (\E k \in Collections : origin[k] = 0) =>
                \A k \in Collections : Cache[k] = <<>>)
    /\ [][(Cache' # Cache \/ origin' # origin) =>
             \E c \in 1..Len(calls) :
                FanInStep(c) /\ \A k \in Collections : origin'[k] = c]_vars
    /\ [][(Awaiting # {} /\ Awaiting' = Awaiting) => Cache' = Cache]_vars

\* a second fan-in with a failed read replaced a populated cache
C8_Witness ==
    /\ Cardinality(FanOuts) = 2
    /\ Awaiting = {}
    /\ branches = <<>>
    /\ companies # <<>>
    /\ calls[1].ret # <<>>
    /\ \A k \in Collections : origin[k] > 1

----------------------------------------------------------------------------
(* C9: whatever subset of the six reads fails, the refresh completes:      *)
(* every collection whose read failed is cached as the empty sequence and  *)
(* every other one as exactly the documents the store returned.            *)

C9_DegradeToEmpty ==
    /\ [][\A c \in 1..Len(calls) : FanInStep(c) =>
             \A k \in Collections :
                Cache'[k] = IF calls[c].resp[k].status = "rejected" THEN <<>>
                            ELSE calls[c].resp[k].documents]_vars
    /\ [](\A c \in Awaiting :
             (\A k \in Collections : calls[c].resp[k].status # "pending") =>
                ENABLED FanIn(c))

\* a second refresh in which three reads failed emptied what the first cached
C9_Witness ==
    /\ Cardinality(FanOuts) = 2
    /\ Awaiting = {}
    /\ calls[1].ret # <<>>
    /\ companies = <<>> /\ products = <<>> /\ verifications = <<>>
    /\ branches # <<>> /\ workingDays # <<>> /\ socialMedia # <<>>

----------------------------------------------------------------------------
(* C10: when the try block throws after the fan-out has begun, the call    *)
(* returns the empty fallback and the six cached collections and the       *)
(* timestamp are what they were before the call.                           *)

C10_ThrowLeavesCacheUntouched ==
    [][\A c \in 1..Len(calls) :
          (FanInStep(c) /\ calls'[c].path = "fallback") =>
             (/\ calls'[c].ret = <<>>
              /\ Cache' = calls[c].before.cache
              /\ lastFetchTime' = calls[c].before.lastFetchTime)]_vars

----------------------------------------------------------------------------
(* C11: fetchCompanyData and refreshCompanyData never reject: a call is    *)
(* either suspended on its fan-out or has resolved, by the busy return,    *)
(* the cache hit, the return after the merge or the catch block, to a      *)
(* sequence, which is empty when the catch block produced it.              *)

\* the ways a call resolves
ResolvedPaths == {"busy", "cached", "fetched", "fallback"}

\* v is an array
IsSequence(v) == DOMAIN v = 1..Len(v)

C11_NeverRejects ==
    \A c \in 1..Len(calls) :
        /\ calls[c].pc \in {"awaiting", "returned"}
        /\ calls[c].pc = "awaiting" => calls[c].path = "fetching"
        /\ calls[c].pc = "returned" =>
              /\ calls[c].path \in ResolvedPaths
              /\ IsSequence(calls[c].ret)
              /\ calls[c].path = "fallback" => calls[c].ret = <<>>

\* one call went through the catch block, the next was a cache hit and a
\* refresh then completed although its branches read had failed
C11_Witness ==
    /\ Len(calls) = 3
    /\ calls[1].path = "fallback"
    /\ calls[2].path = "cached"
    /\ calls[3].path = "fetched"
    /\ calls[3].ret = <<>>
    /\ branches = <<>>
    /\ companies # <<>>

----------------------------------------------------------------------------
(* C12: isLoading is true exactly while some call is suspended on its      *)
(* fan-out.  The call that starts a fan-out sets it in the step that       *)
(* issues the reads, the fan-in clears it on the normal exit and on the    *)
(* exit through the catch block, and the early returns leave it alone.     *)

C12_BusyFlag ==
    /\ [](isLoading <=> Awaiting # {})
    /\ [][(CallStep /\ NewCall.pc = "awaiting") =>
             (~isLoading /\ isLoading' /\ ReadsEveryCollection)]_vars
    /\ [][(CallStep /\ NewCall.pc = "returned") =>
             (isLoading' = isLoading /\ storeReads' = storeReads)]_vars
    /\ [][\A c \in 1..Len(calls) : FanInStep(c) => (isLoading /\ ~isLoading')]_vars
    /\ [][(isLoading' # isLoading) =>
             \/ CallStep /\ NewCall.pc = "awaiting"
             \/ \E c \in 1..Len(calls) : FanInStep(c)]_vars

\* the only fan-out left through the catch block, a call had arrived while
\* it was in flight, and the flag is clear again
C12_Witness ==
    /\ ~isLoading
    /\ Cardinality(FanOuts) = 1
    /\ calls[1].path = "fallback"
    /\ \E d \in 2..Len(calls) : calls[d].path = "busy"
    /\ \E d \in 2..Len(calls) : calls[d].path = "cached"

----------------------------------------------------------------------------
(* C13: a fan-in whose branches read failed caches no branch and returns   *)
(* the empty sequence, whatever the other five reads delivered; a fan-in   *)
(* of six successful reads that returns through line 54 returns one view   *)
(* for every delivered branch whose company was delivered, built from the  *)
(* delivered documents, so a later forced fetch recovers the full view.    *)

\* the delivered branches that have a delivered company
JoinedBranches(resp) ==
    {j \in 1..Len(resp["branches"].documents) :
        \E i \in 1..Len(resp["companies"].documents) :
            resp["companies"].documents[i].company_id =
                resp["branches"].documents[j].company_id}

C13_DegradedThenRecovered ==
    /\ [][\A c \in 1..Len(calls) :
             (FanInStep(c) /\ calls[c].resp["branches"].status = "rejected") =>
                (/\ calls'[c].ret = <<>>
                 /\ branches' = <<>>
                 /\ \A k \in Collections \ {"branches"} :
                       calls[c].resp[k].status = "fulfilled" =>
                          Cache'[k] = calls[c].resp[k].documents)]_vars
    /\ [][\A c \in 1..Len(calls) :
             (/\ FanInStep(c)
              /\ \A k \in Collections : calls[c].resp[k].status = "fulfilled"
              /\ calls'[c].path = "fetched") =>
                (/\ Len(calls'[c].ret) = Cardinality(JoinedBranches(calls[c].resp))
                 /\ \A j \in JoinedBranches(calls[c].resp) :
                       \E v \in 1..Len(calls'[c].ret) :
                          calls'[c].ret[v].id =
                              calls[c].resp["branches"].documents[j].id
                 /\ \A k \in Collections :
                       Cache'[k] = calls[c].resp[k].documents)]_vars

\* the first fetch lost its branches read and returned nothing; the forced
\* fetch that followed returned the view of the delivered branch
C13_Witness ==
    /\ Len(calls) >= 2
    /\ calls[1].path = "fetched"
    /\ calls[1].ret = <<>>
    /\ calls[2].op = "refreshCompanyData"
    /\ calls[2].path = "fetched"
    /\ Len(calls[2].ret) = 1
    /\ calls[2].ret[1].branch_id = "b1"
    /\ calls[2].ret[1].name = "Acme"
    /\ Len(calls[2].ret[1].working_days) = 1

----------------------------------------------------------------------------
(* Vocabulary of the properties of the synchronous operations *)

\* the last call was operation opName and it returned
ReturnedFrom(opName) == result.op = opName /\ ~result.threw

\* the cached branches whose company_id is that of some cached company
MatchedBranches ==
    SelectSeq(branches, LAMBDA b : \E i \in 1..Len(companies) :
                                      companies[i].company_id = b.company_id)

\* the $id of each record of a list
IdsOf(s) == [i \in 1..Len(s) |-> s[i].id]

\* the dual-key rule, spelled out on the fields
DualKey(child, b) ==
    child.branch_id = b.branch_id \/ child.company_id = b.company_id

\* the first present of the four company-identifier fields of a record
ResolvedId(r) ==
    CASE Truthy(r.company_id) -> r.company_id
      [] ~Truthy(r.company_id) /\ Truthy(r.companyId) -> r.companyId
      [] ~Truthy(r.company_id) /\ ~Truthy(r.companyId) /\ Truthy(r.companyID) ->
            r.companyID
      [] OTHER -> r.company

\* the first present of the three status fields of a record
ResolvedStatus(r) ==
    CASE Truthy(r.status) -> r.status
      [] ~Truthy(r.status) /\ Truthy(r.verification_status) ->
            r.verification_status
      [] OTHER -> r.verificationStatus

\* the cached verification records that match company cid
MatchingRecords(cid) ==
    {j \in 1..Len(verifications) : ResolvedId(verifications[j]) = cid}

----------------------------------------------------------------------------
(* C14: when mergeCompanyAndBranchData returns, it returns one view for    *)
(* each cached branch whose company_id is the company_id of some cached    *)
(* company and none for any other branch; the view carries the branch's    *)
(* $id, branch_id and company_id and the name of a company with that       *)
(* company_id.                                                             *)

C14_OneViewPerMatchedBranch ==
    ReturnedFrom("mergeCompanyAndBranchData") =>
        /\ Len(result.value) = Len(MatchedBranches)
        /\ \A v \in 1..Len(result.value) :
              /\ result.value[v].id = MatchedBranches[v].id
              /\ result.value[v].branch_id = MatchedBranches[v].branch_id
              /\ result.value[v].company_id = MatchedBranches[v].company_id
              /\ \E i \in 1..Len(companies) :
                    /\ companies[i].company_id = result.value[v].company_id
                    /\ companies[i].name = result.value[v].name

\* of two cached branches the one without a company got no view
C14_Witness ==
    /\ ReturnedFrom("mergeCompanyAndBranchData")
    /\ Len(branches) = 2
    /\ branches[1].company_id = "c9"
    /\ branches[2].company_id = "c1"
    /\ Len(companies) = 2
    /\ Len(result.value) = 1
    /\ result.value[1].branch_id = branches[2].branch_id

----------------------------------------------------------------------------
(* C15: when mergeCompanyAndBranchData returns, the working days, products *)
(* and social-media links of the view of branch b are exactly the cached   *)
(* records whose branch_id is b's branch_id or whose company_id is b's     *)
(* company_id, in cached order.                                            *)

C15_DualKeyAttachment ==
    ReturnedFrom("mergeCompanyAndBranchData") =>
        \A v \in 1..Len(result.value) :
            /\ v <= Len(MatchedBranches)
            /\ result.value[v].working_days =
                  SelectSeq(workingDays,
                            LAMBDA w : DualKey(w, MatchedBranches[v]))
            /\ IdsOf(result.value[v].products) =
                  IdsOf(SelectSeq(products,
                                  LAMBDA p : DualKey(p, MatchedBranches[v])))
            /\ result.value[v].social_media =
                  SelectSeq(socialMedia,
                            LAMBDA s : DualKey(s, MatchedBranches[v]))

\* a company-level record is in the views of both branches of c1; a record of
\* branch b1 that names company c2 is in the view of b1 and in that of c2's branch
C15_Witness ==
    /\ ReturnedFrom("mergeCompanyAndBranchData")
    /\ IdsOf(workingDays) = <<"doc_ch2", "doc_ch3">>
    /\ Len(result.value) = 3
    /\ IdsOf(result.value[1].working_days) = <<"doc_ch2", "doc_ch3">>
    /\ IdsOf(result.value[2].products) = <<"doc_ch2">>
    /\ IdsOf(result.value[3].social_media) = <<"doc_ch3">>

----------------------------------------------------------------------------
(* C16: when mergeCompanyAndBranchData returns, a view is verified exactly *)
(* when some cached verification record matches the branch's company_id    *)
(* and the first such record resolves to the status "verified"; with no    *)
(* matching record, with a record that carries no company identifier, or   *)
(* with any other or no status, it is not.                                 *)

C16_VerifiedOnlyOnExactStatus ==
    ReturnedFrom("mergeCompanyAndBranchData") =>
        /\ \A v \in 1..Len(result.value) :
              LET M == MatchingRecords(result.value[v].company_id)
              IN result.value[v].is_verified =
                    (/\ M # {}
                     /\ ResolvedStatus(verifications[FirstIndex(M)]) = "verified")
        /\ (verifications = <<>>) =>
              \A v \in 1..Len(result.value) : ~result.value[v].is_verified
        /\ (/\ IdsOf(companies) = <<"doc_co1">>
            /\ IdsOf(branches) = <<"doc_br1">>
            /\ verifications = VerificationDocs) =>
              (Len(result.value) = 1 /\ result.value[1].is_verified)

\* a record without a company identifier is skipped and the record that
\* follows verifies the branches of c1 and not the branch of c2
C16_Witness ==
    /\ ReturnedFrom("mergeCompanyAndBranchData")
    /\ IdsOf(verifications) = <<"doc_v5", "doc_v2">>
    /\ Len(result.value) = 3
    /\ result.value[1].is_verified
    /\ result.value[2].is_verified
    /\ ~result.value[3].is_verified

----------------------------------------------------------------------------
(* C17: the join and every accessor answer without issuing a store read    *)
(* and without assigning to the six cached collections, the busy flag or   *)
(* the timestamp; the join resolves image references on copies, so the     *)
(* cached products keep their product_image and get no image field.        *)

C17_AccessorsArePure ==
    /\ [][(result' # result) =>
             (/\ Cache' = Cache
              /\ isLoading' = isLoading
              /\ lastFetchTime' = lastFetchTime
              /\ storeReads' = storeReads
              /\ calls' = calls
              /\ origin' = origin)]_vars
    /\ [](\A i \in 1..Len(products) :
             DOMAIN products[i] =
                {"id", "branch_id", "company_id", "name", "product_image"})

\* the join returned a product whose image is a composed URL while the cached
\* product still holds the relative reference
C17_Witness ==
    /\ ReturnedFrom("mergeCompanyAndBranchData")
    /\ Len(products) = 1
    /\ products[1].product_image = JsStr(<<"p1.png">>)
    /\ Len(result.value) >= 1
    /\ Len(result.value[1].products) = 1
    /\ Len(result.value[1].products[1].image.text) = 6
    /\ result.value[1].products[1].product_image = JsStr(<<"p1.png">>)
    /\ storeReads = [k \in Collections |-> 1]

----------------------------------------------------------------------------
(* C18: for every branch b that has a view, getWorkingDaysForBranch,       *)
(* getProductsForBranch and getSocialMediaForBranch called with b's        *)
(* branch_id return exactly the cached records the join attaches to b's    *)
(* view: those whose branch_id is b's branch_id or whose company_id is b's *)
(* company_id.                                                             *)

C18_ListersMatchMerge ==
    \A b \in 1..Len(MatchedBranches) :
        /\ (/\ result.op = "getWorkingDaysForBranch"
            /\ result.arg = MatchedBranches[b].branch_id) =>
              result.value =
                 SelectSeq(workingDays, LAMBDA w : DualKey(w, MatchedBranches[b]))
        /\ (/\ result.op = "getProductsForBranch"
            /\ result.arg = MatchedBranches[b].branch_id) =>
              result.value =
                 SelectSeq(products, LAMBDA p : DualKey(p, MatchedBranches[b]))
        /\ (/\ result.op = "getSocialMediaForBranch"
            /\ result.arg = MatchedBranches[b].branch_id) =>
              result.value =
                 SelectSeq(socialMedia, LAMBDA s : DualKey(s, MatchedBranches[b]))

----------------------------------------------------------------------------
(* C19: getCompanyById(x) returns a cached company whose company_id is x   *)
(* whenever there is one and nothing otherwise, and getBranchById(x)       *)
(* returns a cached branch whose branch_id is x whenever there is one.     *)

C19_LookupByIdentityKey ==
    /\ result.op = "getCompanyById" =>
          IF \E i \in 1..Len(companies) : companies[i].company_id = result.arg
          THEN Len(result.value) = 1 /\ result.value[1].company_id = result.arg
          ELSE result.value = <<>>
    /\ result.op = "getBranchById" =>
          ((\E i \in 1..Len(branches) : branches[i].branch_id = result.arg) =>
              (Len(result.value) = 1 /\ result.value[1].branch_id = result.arg))

----------------------------------------------------------------------------
(* C20: searchCompanies(q) returns normally, for every cached company      *)
(* list, the cached companies whose name or e-mail address contains q      *)
(* ignoring letter case, in cached order.                                  *)

\* text is a string that contains q, ignoring letter case
ContainsIgnoringCase(text, q) ==
    /\ IsString(text)
    /\ includes(toLowerCase(CharsOf(text)), toLowerCase(CharsOf(q)))

C20_SearchCaseInsensitive ==
    result.op = "searchCompanies" =>
        /\ ~result.threw
        /\ result.value =
              SelectSeq(companies,
                        LAMBDA c : \/ ContainsIgnoringCase(c.name, result.arg)
                                   \/ ContainsIgnoringCase(c.email, result.arg))

----------------------------------------------------------------------------
\* the matched cached branches whose flag is true
FlaggedBranches(flag) == SelectSeq(MatchedBranches, LAMBDA b : b[flag] = "true")

\* the views of merge() of the branches in bs, in merged order
ViewsOfBranches(bs) ==
    SelectSeq(CachedMergedView,
              LAMBDA v : \E i \in 1..Len(bs) : bs[i].id = v.id)

(* C21: when getOnlineCompanies returns, it returns exactly the views of   *)
(* merge() of the branches whose is_online flag is true, in merged order;  *)
(* getActiveCompanies the same for is_active; a branch whose flag is false *)
(* or missing has no view in the result.                                   *)

C21_FlagFilters ==
    /\ ReturnedFrom("getOnlineCompanies") =>
          /\ IdsOf(result.value) = IdsOf(FlaggedBranches("is_online"))
          /\ StripRandom(result.value) =
                ViewsOfBranches(FlaggedBranches("is_online"))
    /\ ReturnedFrom("getActiveCompanies") =>
          /\ IdsOf(result.value) = IdsOf(FlaggedBranches("is_active"))
          /\ StripRandom(result.value) =
                ViewsOfBranches(FlaggedBranches("is_active"))

\* of two branches of a cached company the one without is_active is left out
C21_Witness ==
    /\ ReturnedFrom("getActiveCompanies")
    /\ Len(branches) = 2
    /\ Len(MatchedBranches) = 2
    /\ branches[1].is_active = Undefined
    /\ branches[2].is_active = "true"
    /\ Len(result.value) = 1
    /\ result.value[1].id = branches[2].id

----------------------------------------------------------------------------
\* the text pieces that begin with a scheme and a host
AbsolutePieces == {"http://cdn.example/p1.png",
                   "https://nyc.cloud.appwrite.io/v1/storage/buckets/"}

\* a string that is a fully-qualified URL
IsAbsolute(v) == v.type = "string" /\ Len(v.text) > 0 /\ v.text[1] \in AbsolutePieces

\* a string that is empty or a fully-qualified URL
EmptyOrAbsolute(v) == v = JsStr(<<>>) \/ IsAbsolute(v)

(* C22: getProductImageUrl returns for every reference; what it returns is *)
(* the empty string or a fully-qualified URL (the reference itself when it *)
(* is one) and resolving the returned value again returns it unchanged;    *)
(* every product of a view that mergeCompanyAndBranchData returns has an   *)
(* image that is the empty string or a fully-qualified URL.                *)

C22_ResolvesToAbsolute ==
    /\ result.op = "getProductImageUrl" =>
          /\ ~result.threw
          /\ EmptyOrAbsolute(result.value[1])
          /\ IsAbsolute(result.arg) => result.value[1] = result.arg
          /\ getProductImageUrl(result.value[1]) = Returned(result.value[1])
    /\ ReturnedFrom("mergeCompanyAndBranchData") =>
          \A v \in 1..Len(result.value) :
              \A p \in 1..Len(result.value[v].products) :
                  EmptyOrAbsolute(result.value[v].products[p].image)

----------------------------------------------------------------------------
\* merge() of the cached collections when every Math.random() draw is 0
ReferenceMerge ==
    MergeFrom(1, companies, branches, workingDays, products, socialMedia,
              verifications, NoDraws(branches))

(* C23: a merge() that returns and the merge() of the same cached          *)
(* collections with all draws 0 have the same length and agree view by     *)
(* view on every field except time and coordinates; for a branch whose     *)
(* location is a key of the table they agree on the coordinates too, which *)
(* are the table entry ("Accra, Ghana": lat 5.6037, lng -0.1870, in units  *)
(* of 1/10000). Hence any two calls on the same cache agree in this way.   *)

C23_DeterministicButRandomFields ==
    ReturnedFrom("mergeCompanyAndBranchData") =>
        /\ Len(result.value) = Len(ReferenceMerge)
        /\ StripRandom(result.value) = StripRandom(ReferenceMerge)
        /\ \A v \in 1..Len(result.value) :
              /\ result.value[v].time \in {times[t] : t \in 1..Len(times)}
              /\ MatchedBranches[v].location \in DOMAIN locationCoords =>
                    /\ result.value[v].coordinates = ReferenceMerge[v].coordinates
                    /\ result.value[v].coordinates =
                          locationCoords[MatchedBranches[v].location]
              /\ MatchedBranches[v].location = "Accra, Ghana" =>
                    result.value[v].coordinates = [lat |-> 56037, lng |-> -1870]

\* a merge that differs from the reference in the time of the Accra branch and
\* in the time and coordinates of a branch at an unknown location
C23_Witness ==
    /\ ReturnedFrom("mergeCompanyAndBranchData")
    /\ Len(result.value) = 2
    /\ MatchedBranches[1].location = "Accra, Ghana"
    /\ MatchedBranches[2].location = "Osu"
    /\ result.value[1].time # ReferenceMerge[1].time
    /\ result.value[1].coordinates = ReferenceMerge[1].coordinates
    /\ result.value[2].time # ReferenceMerge[2].time
    /\ result.value[2].coordinates # ReferenceMerge[2].coordinates

----------------------------------------------------------------------------
\* call r was an invalidation issued while a fetch was in flight, and every
\* call made since then returned at the busy check
PendingInvalidation(r) ==
    /\ calls[r].op = "refreshCompanyData"
    /\ calls[r].path = "busy"
    /\ \A q \in (r + 1)..Len(calls) : calls[q].path = "busy"

(* C24: when an invalidation was issued while a fetch was in flight and    *)
(* that fetch has completed, the next call issues one read of every        *)
(* collection instead of returning from the cache.                         *)

C24_InvalidationSurvivesInFlightFetch ==
    [][(/\ CallStep
        /\ ~isLoading
        /\ \E r \in 1..Len(calls) : PendingInvalidation(r))
          => (ReadsEveryCollection /\ NewCall.path = "fetching")]_vars

----------------------------------------------------------------------------
\* the reads of call c that were rejected
RejectedReads(c) == {k \in Collections : calls[c].resp[k].status = "rejected"}

\* some call has completed its fan-in
SomeFanInCompleted ==
    \E c \in 1..Len(calls) : calls[c].path \in {"fetched", "fallback"}

(* C25: every fan-in sets lastFetchTime to the current time and assigns to *)
(* each of the six collections what its read resolved to, [] for a read    *)
(* that failed, however many failed; a non-forced call made while idle and *)
(* less than cacheTimeout after the stamp returns from the cache and       *)
(* issues no read; lastFetchTime is non-null only if some call has         *)
(* completed its fan-in.                                                   *)

C25_DegradedFanInStamps ==
    /\ [][\A c \in 1..MaxCalls : FanInStep(c) =>
             /\ lastFetchTime' = now
             /\ \A k \in Collections :
                   Cache'[k] = IF k \in RejectedReads(c) THEN <<>>
                               ELSE calls[c].resp[k].documents]_vars
    /\ [][(/\ CallStep
           /\ ~ForcedCall
           /\ ~isLoading
           /\ lastFetchTime # NullTime
           /\ now - lastFetchTime < cacheTimeout)
             => (storeReads' = storeReads /\ NewCall.path = "cached")]_vars
    /\ [](lastFetchTime # NullTime => SomeFanInCompleted)

\* after a fan-in whose six reads all failed had emptied a cache that held
\* branches, a non-forced call was answered from the cache
C25_Witness ==
    /\ Len(calls) = 3
    /\ calls[1].path = "fetched"
    /\ Len(calls[1].ret) > 0
    /\ calls[2].path = "fetched"
    /\ calls[2].ret = <<>>
    /\ flaky = Collections
    /\ \A k \in Collections : Cache[k] = <<>> /\ origin[k] = 2
    /\ calls[3].op = "fetchCompanyData"
    /\ calls[3].path = "cached"
    /\ storeReads = [k \in Collections |-> 2]

----------------------------------------------------------------------------
\* call c has a read that has not settled
HasPendingRead(c) == \E k \in Collections : calls[c].resp[k].status = "pending"

(* C26: when every pending read eventually settles, every call that began  *)
(* a fan-out eventually returns and isLoading eventually is false again;   *)
(* a fan-in happens only when all six reads of its call have settled, and  *)
(* while a call has a read that has not settled isLoading is true and the  *)
(* six cached collections are the ones the call found.                     *)

C26_FanOutReturns ==
    /\ \A c \in 1..MaxCalls :
          (c \in Awaiting) ~> (c <= Len(calls) /\ calls[c].pc = "returned")
    /\ isLoading ~> ~isLoading
    /\ [][\A c \in 1..MaxCalls : FanInStep(c) => ~HasPendingRead(c)]_vars
    /\ [](\A c \in Awaiting :
             HasPendingRead(c) =>
                 /\ isLoading
                 /\ Cache = calls[c].before.cache
                 /\ lastFetchTime \in {calls[c].before.lastFetchTime, NullTime})

\* a call is suspended with five reads settled and one still pending
C26_Witness ==
    \E c \in Awaiting :
        /\ isLoading
        /\ Cardinality({k \in Collections :
                           calls[c].resp[k].status = "pending"}) = 1
        /\ \E d \in 1..Len(calls) : calls[d].path = "fetched"

----------------------------------------------------------------------------
\* the first present value of a list of candidates, the last one if none is
FirstPresent(candidates) ==
    LET present == {i \in 1..Len(candidates) : Truthy(candidates[i])}
    IN IF present = {} THEN candidates[Len(candidates)]
       ELSE candidates[FirstIndex(present)]

\* record j names company cid by the first present of its identifier fields
NamesCompany(j, cid) ==
    FirstPresent(<<verifications[j].company_id, verifications[j].companyId,
                   verifications[j].companyID, verifications[j].company>>) = cid

\* record j is the first cached record that names company cid
FirstNaming(j, cid) ==
    NamesCompany(j, cid) /\ \A i \in 1..(j - 1) : ~NamesCompany(i, cid)

\* the views of the result that belong to company cid
ViewsOfCompany(cid) ==
    {v \in 1..Len(result.value) : result.value[v].company_id = cid}

(* C27: when mergeCompanyAndBranchData returns, a view is verified exactly *)
(* when the first cached record whose first present identifier field       *)
(* (company_id, companyId, companyID, company) equals the branch's         *)
(* company_id has "verified" as the first present of status,               *)
(* verification_status, verificationStatus; a later record does not        *)
(* override the first matching one, and a later field does not override an *)
(* earlier one that is present.                                            *)

C27_OrderedCandidateFields ==
    ReturnedFrom("mergeCompanyAndBranchData") =>
        /\ \A v \in 1..Len(result.value) :
              result.value[v].is_verified =
                 \E j \in 1..Len(verifications) :
                    /\ FirstNaming(j, result.value[v].company_id)
                    /\ FirstPresent(<<verifications[j].status,
                                      verifications[j].verification_status,
                                      verifications[j].verificationStatus>>)
                          = "verified"
        \* status "pending" hides verification_status "verified", and the
        \* verified record that follows is not consulted
        /\ IdsOf(verifications) = <<"doc_v3", "doc_v1">> =>
              \A v \in ViewsOfCompany("c1") : ~result.value[v].is_verified
        \* company_id "c2" hides company "c1"
        /\ IdsOf(verifications) = <<"doc_v4">> =>
              /\ \A v \in ViewsOfCompany("c1") : ~result.value[v].is_verified
              /\ \A v \in ViewsOfCompany("c2") : result.value[v].is_verified

\* a record naming c2 by company_id and c1 by company verifies the view of c2,
\* and the pending record that follows keeps the views of c1 unverified
C27_Witness ==
    /\ ReturnedFrom("mergeCompanyAndBranchData")
    /\ IdsOf(verifications) = <<"doc_v4", "doc_v3">>
    /\ ViewsOfCompany("c1") = {1, 2}
    /\ ViewsOfCompany("c2") = {3}
    /\ ~result.value[1].is_verified
    /\ ~result.value[2].is_verified
    /\ result.value[3].is_verified

----------------------------------------------------------------------------
\* the $ids of the branches of the store's table that are active and not disabled
ServableBranchIds ==
    {BranchTable[i].id : i \in {j \in 1..Len(BranchTable) :
                                   /\ BranchTable[j].is_active = "true"
                                   /\ BranchTable[j].disabled = "false"}}

\* merge() over the cached collections with the whole table as the branches
MergeOfWholeTable ==
    MergeFrom(1, companies, BranchTable, workingDays, products, socialMedia,
              verifications, NoDraws(BranchTable))

(* C28: with a store that honours the two branch filters, after any        *)
(* sequence of fetches every cached branch is active and not disabled,     *)
(* every view a fetch returned is the view of such a branch, and           *)
(* getActiveCompanies returns what mergeCompanyAndBranchData returns; the  *)
(* join itself does not filter: over the unfiltered table it also returns  *)
(* a view, with is_active false, for the branch that is not active.        *)

C28_OnlyActiveBranchesServed ==
    /\ \A i \in 1..Len(branches) :
          branches[i].is_active = "true" /\ branches[i].disabled = "false"
    /\ \A c \in 1..Len(calls) :
          calls[c].path = "fetched" =>
              \A v \in 1..Len(calls[c].ret) :
                  /\ calls[c].ret[v].is_active
                  /\ calls[c].ret[v].id \in ServableBranchIds
    /\ getActiveCompanies(NoDraws(branches)) =
          mergeCompanyAndBranchData(NoDraws(branches))
    /\ companies # <<>> =>
          \E v \in 1..Len(MergeOfWholeTable) :
              /\ MergeOfWholeTable[v].id = "doc_br8"
              /\ ~MergeOfWholeTable[v].is_active

\* a fetch returned a view while the table held branches that were filtered out
C28_Witness ==
    /\ Len(branches) = 2
    /\ Len(BranchTable) = 4
    /\ \E c \in 1..Len(calls) :
          calls[c].path = "fetched" /\ Len(calls[c].ret) = 1
    /\ getActiveCompanies(NoDraws(branches)).value # <<>>

----------------------------------------------------------------------------
\* the position in the cached branches of the branch with $id id
PositionOf(id) == FirstIndex({i \in 1..Len(branches) : branches[i].id = id})

\* the cached companies with company_id cid, as indices
CompaniesWith(cid) == {i \in 1..Len(companies) : companies[i].company_id = cid}

(* C29: when mergeCompanyAndBranchData returns, the views are in the order *)
(* of their branches in the cached branch sequence, and each view has the  *)
(* name of the first cached company, in cached order, whose company_id is  *)
(* the branch's.                                                           *)

C29_OrderAndFirstCompany ==
    ReturnedFrom("mergeCompanyAndBranchData") =>
        /\ \A v \in 1..Len(result.value) : PositionOf(result.value[v].id) # 0
        /\ \A v, w \in 1..Len(result.value) :
              v < w => PositionOf(result.value[v].id) < PositionOf(result.value[w].id)
        /\ \A v \in 1..Len(result.value) :
              LET first == FirstIndex(CompaniesWith(result.value[v].company_id))
              IN /\ first # 0
                 /\ result.value[v].name = companies[first].name

\* two companies share c1; both views are named after the one cached first,
\* and the views keep the order of their branches
C29_Witness ==
    /\ ReturnedFrom("mergeCompanyAndBranchData")
    /\ IdsOf(companies) = <<"doc_co3", "doc_co1">>
    /\ IdsOf(branches) = <<"doc_br3", "doc_br1">>
    /\ IdsOf(result.value) = <<"doc_br3", "doc_br1">>
    /\ result.value[1].name = "Apex"
    /\ result.value[2].name = "Apex"

----------------------------------------------------------------------------
(* C30: on every page, every call of updateNotifications and of            *)
(* setupNotifications returns after finitely many nested calls: none       *)
(* exhausts the call stack.                                                *)

C30_NotificationCallsReturn == ~rangeError

----------------------------------------------------------------------------
(* Vocabulary of the properties of the notification manager *)

\* the links whose container is in this.notificationContainers
ContainerLinks ==
    {notificationContainers[c] : c \in 1..Len(notificationContainers)}

\* this step is updateNotifications redrawing the containers
RedrawStep ==
    /\ Running("updateNotifications")
    /\ Len(notificationContainers) > 0
    /\ stack' = SubSeq(stack, 1, Len(stack) - 1)

\* the statuses of the dots among the given children of a container
DotsShown(children) ==
    UNION {{children[e].statuses[d] : d \in 1..Len(children[e].statuses)} :
              e \in {x \in 1..Len(children) : children[x].class \in IndicatorClasses}}

\* the spellings of a known status, whatever the case of their letters
SpellingsOf(key) ==
    CASE key = "pending" -> {"pending"}
      [] key = "accepted" -> {"accepted", "Accepted"}
      [] key = "completed" -> {"completed", "COMPLETED"}

\* some order of the list has the status key
SomeOrderIs(os, key) == \E i \in 1..Len(os) : os[i].status \in SpellingsOf(key)

\* the dots a sentence of getExpectedBehavior describes
DescribedDots(text) ==
    CASE text = "Both yellow and green dots should appear" -> {"pending", "accepted"}
      [] text = "Yellow dot should appear" -> {"pending"}
      [] text = "Green dot should appear" -> {"accepted"}
      [] text = "Grey dot should appear" -> {"completed"}
      [] text = "No notification dot should appear" -> {}

(* C31: when updateNotifications redraws, every container then shows a    *)
(* pending dot iff some order is pending, an accepted dot iff some order   *)
(* is accepted, and a completed dot iff some order is completed and none   *)
(* is pending or accepted, statuses compared without regard to case and    *)
(* other statuses ignored; these are the dots getExpectedBehavior          *)
(* describes for the counts of the same orders.                            *)

C31_DotsFollowOrders ==
    [][RedrawStep =>
          \A i \in ContainerLinks :
              LET shown == DotsShown(containerChildren'[i])
              IN /\ ("pending" \in shown) = SomeOrderIs(orders, "pending")
                 /\ ("accepted" \in shown) = SomeOrderIs(orders, "accepted")
                 /\ ("completed" \in shown) =
                       (/\ SomeOrderIs(orders, "completed")
                        /\ ~SomeOrderIs(orders, "pending")
                        /\ ~SomeOrderIs(orders, "accepted"))
                 /\ shown \subseteq StatusKeys
                 /\ shown = DescribedDots(
                       getExpectedBehavior(getOrderStatusCounts(orders)))]_vars

\* with an order "Accepted" and an order "COMPLETED" the containers show the
\* accepted dot alone
C31_Witness ==
    /\ stack = <<>>
    /\ orders = <<Order("Accepted"), Order("COMPLETED")>>
    /\ Len(notificationContainers) = 2
    /\ \A i \in ContainerLinks :
          containerChildren[i] = <<Indicator(<<"accepted">>)>>

----------------------------------------------------------------------------
\* the indicator elements among the children of a container, as positions
IndicatorsIn(children) ==
    {e \in 1..Len(children) : children[e].class \in IndicatorClasses}

\* no order of the list has one of the three known statuses
NothingToShow(os) == \A k \in StatusKeys : ~SomeOrderIs(os, k)

\* no function of the manager is running
Idle == stack = <<>>

(* C32: whatever refreshes (timer, storage event, forceUpdate,             *)
(* addTestOrder, init) and changes of the stored orders have happened,     *)
(* every container of the manager holds at most one indicator element;     *)
(* when no function of the manager is running that element shows the dots  *)
(* of this.orders as last loaded, and there is none when those orders      *)
(* call for none; a redraw leaves no indicator it found.                   *)

C32_OneCurrentIndicator ==
    /\ [](\A i \in ContainerLinks :
             /\ Cardinality(IndicatorsIn(containerChildren[i])) <= 1
             /\ Idle =>
                   /\ NothingToShow(orders) =
                         (IndicatorsIn(containerChildren[i]) = {})
                   /\ \A k \in StatusKeys :
                         k \in DotsShown(containerChildren[i]) =>
                             SomeOrderIs(orders, k))
    /\ [][RedrawStep =>
             \A i \in ContainerLinks :
                 /\ Cardinality(IndicatorsIn(containerChildren'[i])) <= 1
                 /\ NothingToShow(orders) => containerChildren'[i] = <<>>]_vars

\* a container that held a dot in the markup is empty after a refresh with
\* orders that call for none, while the storage already holds a pending order
C32_Witness ==
    /\ Idle
    /\ Len(links) = 1
    /\ links[1] = "wrapped"
    /\ notificationContainers = <<1>>
    /\ orders = <<Order("cancelled")>>
    /\ containerChildren[1] = <<>>
    /\ storedOrders = [kind |-> "json", orders |-> <<Order("pending")>>]

(***************************************************************************)
(* The auth functions of part_000: signUp and signIn.  Each await is one   *)
(* step: the request the function sent settles, resolved or rejected, and  *)
(* the function runs on to its next await or to its end.                   *)
(***************************************************************************)

\* the number of calls of signUp and signIn followed
MaxAuthCalls == 3

\* the e-mail addresses typed into the forms
Emails == {"ama@example.com", "kofi@example.com"}

\* what a rejected request of the Appwrite SDK rejects with: an exception
\* of the service, or the TypeError of a fetch that failed
Errors == {"AppwriteException", "TypeError"}

\* ID.unique() of the n-th call
UniqueId(n) == IF n = 1 THEN "id1" ELSE IF n = 2 THEN "id2" ELSE "id3"

\* the awaits of signUp and of signIn, in the order of the text
SignUpSteps ==
    <<"account.create", "account.createEmailPasswordSession",
      "databases.createDocument">>

SignInSteps == <<"account.deleteSession", "account.createEmailPasswordSession">>

\* the step after steps[k], "done" after the last
StepAfter(steps, step) ==
    LET k == CHOOSE j \in 1..Len(steps) : steps[j] = step
    IN IF k = Len(steps) THEN "done" ELSE steps[k + 1]

\* a signUp that goes on to its next await whatever the last one did
AfterSignUpStepRegardless(step, ok) == StepAfter(SignUpSteps, step)

\* where signUp goes when the request it awaits settles: a rejection leaves
\* the try block for the catch block
AfterSignUpStep(step, ok) ==
    IF ok THEN StepAfter(SignUpSteps, step) ELSE "done"

\* where signIn goes: the inner catch block swallows whatever deleteSession
\* rejected with, the outer one ends the call
AfterSignInStep(step, ok) ==
    IF ok \/ step = "account.deleteSession"
    THEN StepAfter(SignInSteps, step)
    ELSE "done"

\* the catch blocks read error.message, which throws on null and undefined
CatchThrows(error) == error \in {Undefined, JsNull}

\* a call of op that has run to its first await
AuthCall(op, email, steps) ==
    [op |-> op, email |-> email, uniqueId |-> UniqueId(Len(authCalls) + 1),
     pc |-> steps[1], log |-> <<>>, alerts |-> <<>>, redirected |-> FALSE,
     rejected |-> FALSE]

\* call c after the request it awaits settled
Settled(c, ok, error, next) ==
    [c EXCEPT
        !.pc = next,
        !.log = Append(@, [step |-> c.pc, ok |-> ok]),
        !.alerts =
            IF ~ok /\ next = "done"
            THEN Append(@, IF c.op = "signUp" THEN "Error creating account: "
                           ELSE "Error signing in: ")
            ELSE IF c.op = "signUp" /\ next = "done"
            THEN Append(@, "Account created successfully!")
            ELSE @,
        !.redirected = ok /\ next = "done",
        !.rejected = ~ok /\ next = "done" /\ CatchThrows(error)]

\* the page after call c' took its step
Redirected(c) == IF c.redirected THEN "home.html" ELSE location

\* signUp up to account.create
signUp(email) ==
    /\ Len(authCalls) < MaxAuthCalls
    /\ authCalls' = Append(authCalls, AuthCall("signUp", email, SignUpSteps))
    /\ UNCHANGED <<session, accounts, customers, location>>
    /\ UNCHANGED <<managerVars, notifVars, serverVars>>

\* account.create settles
AccountCreateSettles(i, ok, error) ==
    LET c == authCalls[i]
        d == Settled(c, ok, error, AfterSignUpStep(c.pc, ok))
    IN /\ c.op = "signUp"
       /\ c.pc = "account.create"
       /\ accounts' =
              IF ok THEN accounts \cup {[id |-> c.uniqueId, email |-> c.email]}
              ELSE accounts
       /\ authCalls' = [authCalls EXCEPT ![i] = d]
       /\ location' = Redirected(d)
       /\ UNCHANGED <<session, customers>>
       /\ UNCHANGED <<managerVars, notifVars, serverVars>>

\* the createEmailPasswordSession of signUp settles
SignUpSessionSettles(i, ok, error) ==
    LET c == authCalls[i]
        d == Settled(c, ok, error, AfterSignUpStep(c.pc, ok))
    IN /\ c.op = "signUp"
       /\ c.pc = "account.createEmailPasswordSession"
       /\ session' = IF ok THEN c.email ELSE session
       /\ authCalls' = [authCalls EXCEPT ![i] = d]
       /\ location' = Redirected(d)
       /\ UNCHANGED <<accounts, customers>>
       /\ UNCHANGED <<managerVars, notifVars, serverVars>>

\* databases.createDocument settles
CreateCustomerSettles(i, ok, error) ==
    LET c == authCalls[i]
        d == Settled(c, ok, error, AfterSignUpStep(c.pc, ok))
    IN /\ c.op = "signUp"
       /\ c.pc = "databases.createDocument"
       /\ customers' =
              IF ok THEN customers \cup {[uid |-> c.uniqueId, email |-> c.email]}
              ELSE customers
       /\ authCalls' = [authCalls EXCEPT ![i] = d]
       /\ location' = Redirected(d)
       /\ UNCHANGED <<session, accounts>>
       /\ UNCHANGED <<managerVars, notifVars, serverVars>>

\* signIn up to account.deleteSession
signIn(email) ==
    /\ Len(authCalls) < MaxAuthCalls
    /\ authCalls' = Append(authCalls, AuthCall("signIn", email, SignInSteps))
    /\ UNCHANGED <<session, accounts, customers, location>>
    /\ UNCHANGED <<managerVars, notifVars, serverVars>>

\* account.deleteSession('current') settles: without a session it rejects,
\* with one it deletes it, or fails and leaves it
DeleteSessionSettles(i, ok, error) ==
    LET c == authCalls[i]
        d == Settled(c, ok, error, AfterSignInStep(c.pc, ok))
    IN /\ c.op = "signIn"
       /\ c.pc = "account.deleteSession"
       /\ ok => session # NoSession
       /\ session' = IF ok THEN NoSession ELSE session
       /\ authCalls' = [authCalls EXCEPT ![i] = d]
       /\ location' = Redirected(d)
       /\ UNCHANGED <<accounts, customers>>
       /\ UNCHANGED <<managerVars, notifVars, serverVars>>

\* the createEmailPasswordSession of signIn settles
SignInSessionSettles(i, ok, error) ==
    LET c == authCalls[i]
        d == Settled(c, ok, error, AfterSignInStep(c.pc, ok))
    IN /\ c.op = "signIn"
       /\ c.pc = "account.createEmailPasswordSession"
       /\ session' = IF ok THEN c.email ELSE session
       /\ authCalls' = [authCalls EXCEPT ![i] = d]
       /\ location' = Redirected(d)
       /\ UNCHANGED <<accounts, customers>>
       /\ UNCHANGED <<managerVars, notifVars, serverVars>>

\* the browser opens signup.html or signin.html, signed out or with the
\* session of an earlier visit
InitAuth ==
    /\ InitManager
    /\ flaky = {}
    /\ NoNotificationManager
    /\ NoRequests
    /\ session \in {NoSession} \cup Emails
    /\ accounts = IF session = NoSession THEN {}
                  ELSE {[id |-> "id0", email |-> session]}
    /\ customers = IF session = NoSession THEN {}
                   ELSE {[uid |-> "id0", email |-> session]}
    /\ location \in {"signup.html", "signin.html"}
    /\ authCalls = <<>>

NextAuth ==
    \/ \E email \in Emails : signUp(email)
    \/ \E email \in Emails : signIn(email)
    \/ \E i \in 1..Len(authCalls), ok \in BOOLEAN, error \in Errors :
           AccountCreateSettles(i, ok, error)
    \/ \E i \in 1..Len(authCalls), ok \in BOOLEAN, error \in Errors :
           SignUpSessionSettles(i, ok, error)
    \/ \E i \in 1..Len(authCalls), ok \in BOOLEAN, error \in Errors :
           CreateCustomerSettles(i, ok, error)
    \/ \E i \in 1..Len(authCalls), ok \in BOOLEAN, error \in Errors :
           DeleteSessionSettles(i, ok, error)
    \/ \E i \in 1..Len(authCalls), ok \in BOOLEAN, error \in Errors :
           SignInSessionSettles(i, ok, error)

SpecAuth == InitAuth /\ [][NextAuth]_vars

(***************************************************************************)
(* Property vocabulary of the auth functions                               *)
(***************************************************************************)

\* the calls of op
CallsOf(op) == {i \in 1..Len(authCalls) : authCalls[i].op = op}

\* the requests of call c so far are the first ones of steps, in order
InOrderOf(c, steps) ==
    /\ Len(c.log) <= Len(steps)
    /\ \A k \in 1..Len(c.log) : c.log[k].step = steps[k]

\* every request of call c succeeded, and they are all of steps
AllSucceeded(c, steps) ==
    /\ Len(c.log) = Len(steps)
    /\ \A k \in 1..Len(c.log) : c.log[k].ok

\* call i ends in this step
Finishes(i) ==
    /\ i \in 1..Len(authCalls)
    /\ authCalls[i].pc # "done"
    /\ authCalls'[i].pc = "done"

\* C33: signUp sends account.create, then createEmailPasswordSession, then
\* createDocument, each only after the one before it succeeded, and the
\* customer document carries the id of the account as its uid; the call
\* ends at the first request that fails, redirects to home.html exactly
\* when all three succeeded, and never throws to its caller.
C33_SignUpInOrder ==
    /\ [](\A i \in CallsOf("signUp") :
             LET c == authCalls[i]
             IN /\ InOrderOf(c, SignUpSteps)
                /\ \A k \in 1..Len(c.log) :
                       ~c.log[k].ok => k = Len(c.log) /\ c.pc = "done"
                /\ c.redirected =
                       (c.pc = "done" /\ AllSucceeded(c, SignUpSteps))
                /\ (Len(c.log) = 3 /\ c.log[3].ok) =>
                       /\ [id |-> c.uniqueId, email |-> c.email] \in accounts
                       /\ [uid |-> c.uniqueId, email |-> c.email] \in customers
                /\ ~c.rejected)
    /\ [](\A d \in customers : \E a \in accounts : a.id = d.uid)
    /\ [][\A i \in CallsOf("signUp") :
             Finishes(i) =>
                 IF AllSucceeded(authCalls'[i], SignUpSteps)
                 THEN location' = "home.html"
                 ELSE location' = location]_vars

\* one signUp went through and redirected, another stopped at its session
C33_Witness ==
    \E i, j \in CallsOf("signUp") :
        /\ authCalls[i].redirected
        /\ location = "home.html"
        /\ [uid |-> authCalls[i].uniqueId, email |-> authCalls[i].email]
               \in customers
        /\ authCalls[j].pc = "done"
        /\ Len(authCalls[j].log) = 2
        /\ ~authCalls[j].log[2].ok
        /\ authCalls[j].alerts = <<"Error creating account: ">>

\* C34: signIn asks to delete the current session before it asks for the
\* new one, and goes on when there was none to delete; it redirects to
\* home.html exactly when the new session was created; and when a signIn
\* ends without the new session, no session is active and the page stays.
C34_FailedSignInLeavesNoSession ==
    /\ [](\A i \in CallsOf("signIn") :
             LET c == authCalls[i]
             IN /\ InOrderOf(c, SignInSteps)
                /\ c.redirected =
                       (c.pc = "done" /\ Len(c.log) = 2 /\ c.log[2].ok))
    /\ [][\A i \in CallsOf("signIn") :
             Finishes(i) =>
                 IF authCalls'[i].redirected
                 THEN session' = authCalls[i].email /\ location' = "home.html"
                 ELSE session' = NoSession /\ location' = location]_vars

(***************************************************************************)
(* The ratings endpoint of server.js: app.post('/api/ratings').  A request *)
(* runs from its arrival to its response or to the await of                *)
(* databases.createDocument; requests interleave at that await.            *)
(***************************************************************************)

\* the number of requests followed
MaxRequests == 3

\* a value of a JSON body, or the undefined of a key the body does not have
JsonUndefined == [type |-> "undefined", text |-> ""]
JsonNull == [type |-> "null", text |-> ""]
JsonNumber(digits) == [type |-> "number", text |-> digits]
JsonString(text) == [type |-> "string", text |-> text]

\* a check that lets every value through but that of a key not in the body
NotUndefined(v) == v.type # "undefined"

\* the truthiness of a JSON value: undefined, null, 0 and '' are falsy
JsonTruthy(v) ==
    /\ v.type \notin {"undefined", "null"}
    /\ v.type = "number" => v.text # "0"
    /\ v.type = "string" => v.text # ""

\* what clients send as stars and as company_id
StarsPool == {JsonUndefined, JsonNull, JsonNumber("0"), JsonNumber("5")}
CompanyIdPool == {JsonUndefined, JsonString(""), JsonString("c1")}

\* req.body as express.json() leaves it: the parsed object, or nothing when
\* the request carried no JSON
Bodies ==
    [sent : {TRUE}, stars : StarsPool, company_id : CompanyIdPool]
        \cup {[sent |-> FALSE, stars |-> JsonUndefined,
               company_id |-> JsonUndefined]}

\* req.body || {}
BodyOrEmpty(body) ==
    IF body.sent THEN body
    ELSE [sent |-> TRUE, stars |-> JsonUndefined, company_id |-> JsonUndefined]

\* the document the handler asks the database to create
Payload(body) == [company_id |-> body.company_id, stars |-> body.stars]

\* the handler from the arrival of a request to its first await, or to its
\* response when stars or company_id is falsy
PostRating(body) ==
    LET b == BodyOrEmpty(body)
        refused == ~JsonTruthy(b.stars) \/ ~JsonTruthy(b.company_id)
    IN /\ Len(requests) < MaxRequests
       /\ requests' = Append(requests,
              [body |-> body,
               pc |-> IF refused THEN "done" ELSE "createDocument",
               attempts |-> IF refused THEN <<>> ELSE <<Payload(b)>>,
               outcomes |-> <<>>,
               responses |-> IF refused THEN <<400>> ELSE <<>>])
       /\ UNCHANGED ratings
       /\ UNCHANGED <<managerVars, notifVars, authVars>>

\* databases.createDocument settles and the handler answers
CreateDocumentSettles(i, ok) ==
    LET r == requests[i]
    IN /\ r.pc = "createDocument"
       /\ ratings' = IF ok THEN ratings \cup {[request |-> i, document |-> r.attempts[1]]}
                     ELSE ratings
       /\ requests' = [requests EXCEPT
              ![i].pc = "done",
              ![i].outcomes = Append(@, ok),
              ![i].responses = Append(@, IF ok THEN 201 ELSE 500)]
       /\ UNCHANGED <<managerVars, notifVars, authVars>>

\* the server listens and no request has arrived
InitServer ==
    /\ InitManager
    /\ flaky = {}
    /\ NoNotificationManager
    /\ NoAuthCalls
    /\ NoRequests

NextServer ==
    \/ \E body \in Bodies : PostRating(body)
    \/ \E i \in 1..Len(requests), ok \in BOOLEAN : CreateDocumentSettles(i, ok)

SpecServer == InitServer /\ [][NextServer]_vars

(***************************************************************************)
(* Property vocabulary of the ratings endpoint                             *)
(***************************************************************************)

\* a field the body does not carry, or carries as null
MissingFromBody(v) == v.type \in {"undefined", "null"}

\* the values the amended statement names: missing, null, 0, the empty string
NamedFalsy(v) ==
    v \in {JsonUndefined, JsonNull, JsonNumber("0"), JsonString("")}

\* request r is answered as one that was refused or one that was let through:
\* a refused one with 400 and without any createDocument, one let through
\* with a single createDocument and, once that settled, with 201 or 500
AnsweredAs(r, refused) ==
    /\ Len(r.responses) <= 1
    /\ r.pc = "done" => Len(r.responses) = 1
    /\ IF refused
       THEN r.responses = <<400>> /\ r.attempts = <<>>
       ELSE /\ Len(r.attempts) = 1
            /\ r.responses =
                   IF r.pc # "done" THEN <<>>
                   ELSE IF r.outcomes = <<TRUE>> THEN <<201>> ELSE <<500>>

====
